---- MODULE Spec2Model ----
(***************************************************************************)
(* Speech Quest (shloknair1005/Transcript): the browser-side capture       *)
(* pipeline of src/app9.py (PCM accumulation, WAV encoding, the realtime   *)
(* quality monitor) together with the quality display of src/app4.py.      *)
(*                                                                         *)
(* Numbers.  Audio samples are JavaScript floats; an incoming sample is    *)
(* modelled as the rational n / SampleDen and carried as its numerator n.  *)
(* The quality score is a float as well; it is modelled as an exact        *)
(* rational [num, den] (no floating-point rounding).  DataView writes keep *)
(* their width: a value is stored byte by byte, so it is reduced modulo    *)
(* 2^16 or 2^32 exactly as setUint16 / setUint32 / setInt16 do.            *)
(***************************************************************************)
EXTENDS Integers, Sequences, FiniteSets, TLC

(***************************************************************************)
(* Bounds of the model.                                                    *)
(***************************************************************************)
MaxSamples == 3

(***************************************************************************)
(* DataView / ArrayBuffer: a buffer is a 1-indexed sequence of bytes; the  *)
(* byte at JavaScript offset k is element k+1.                             *)
(***************************************************************************)
ArrayBuffer(n) == [i \in 1..n |-> 0]

setUint8(view, offset, v) == [view EXCEPT ![offset + 1] = v % 256]

setInt16_BE(view, offset, v) ==
    [view EXCEPT ![offset + 1] = (v \div 256) % 256,
                 ![offset + 2] = v % 256]

\* view.setUint16(offset, v, true): little-endian, v modulo 2^16
setUint16(view, offset, v) ==
    [view EXCEPT ![offset + 1] = v % 256,
                 ![offset + 2] = (v \div 256) % 256]

\* view.setUint32(offset, v, true): little-endian, v modulo 2^32
setUint32(view, offset, v) ==
    [view EXCEPT ![offset + 1] = v % 256,
                 ![offset + 2] = (v \div 256) % 256,
                 ![offset + 3] = (v \div 65536) % 256,
                 ![offset + 4] = (v \div 16777216) % 256]

\* view.setInt16(offset, v, true): two's complement, little-endian
setInt16(view, offset, v) == setUint16(view, offset, v % 65536)

\* string.charCodeAt(i) of the four chunk tags
RIFF == <<82, 73, 70, 70>>
WAVE == <<87, 65, 86, 69>>
FMT_ == <<102, 109, 116, 32>>
DATA == <<100, 97, 116, 97>>

RECURSIVE writeString(_, _, _)
writeString(view, offset, string) ==
    IF string = <<>> THEN view
    ELSE writeString(setUint8(view, offset, Head(string)), offset + 1, Tail(string))

\* the sample loop of createWavFile: for (i = 0; i < length; i++, offset += 2)
RECURSIVE writePcm(_, _, _, _)
writePcm(view, pcmData, i, offset) ==
    IF i > Len(pcmData) THEN view
    ELSE writePcm(setInt16(view, offset, pcmData[i]), pcmData, i + 1, offset + 2)

chunkSize_m(n) == 44 + n * 2

\* the ChunkSize field: 36 + pcmData.length * 2
chunkSize(n) == 36 + n * 2

byteRate_m(rate, channels) == rate * channels

\* the ByteRate field: sampleRate * channels * 2
byteRate(rate, channels) == rate * channels * 2

createWavFile(pcmData, rate, channels) ==
    LET n   == Len(pcmData)
        v0  == ArrayBuffer(44 + n * 2)
        v1  == writeString(v0, 0, RIFF)
        v2  == setUint32(v1, 4, chunkSize(n))
        v3  == writeString(v2, 8, WAVE)
        v4  == writeString(v3, 12, FMT_)
        v5  == setUint32(v4, 16, 16)
        v6  == setUint16(v5, 20, 1)
        v7  == setUint16(v6, 22, channels)
        v8  == setUint32(v7, 24, rate)
        v9  == setUint32(v8, 28, byteRate(rate, channels))
        v10 == setUint16(v9, 32, channels * 2)
        v11 == setUint16(v10, 34, 16)
        v12 == writeString(v11, 36, DATA)
        v13 == setUint32(v12, 40, n * 2)
    IN  writePcm(v13, pcmData, 1, 44)

(***************************************************************************)
(* A decoder of the RIFF/WAVE layout: the header fields at their offsets   *)
(* and Subchunk2Size / 2 little-endian 16-bit samples from offset 44.      *)
(***************************************************************************)
getUint16(bytes, offset) == bytes[offset + 1] + 256 * bytes[offset + 2]

getUint32(bytes, offset) ==
    bytes[offset + 1] + 256 * bytes[offset + 2]
        + 65536 * bytes[offset + 3] + 16777216 * bytes[offset + 4]

getInt16(bytes, offset) ==
    LET u == getUint16(bytes, offset) IN IF u >= 32768 THEN u - 65536 ELSE u

getString(bytes, offset) == [i \in 1..4 |-> bytes[offset + i]]

decodeWav(bytes) ==
    [ chunkId       |-> getString(bytes, 0),
      chunkSize     |-> getUint32(bytes, 4),
      format        |-> getString(bytes, 8),
      subchunk1Id   |-> getString(bytes, 12),
      subchunk1Size |-> getUint32(bytes, 16),
      audioFormat   |-> getUint16(bytes, 20),
      numChannels   |-> getUint16(bytes, 22),
      sampleRate    |-> getUint32(bytes, 24),
      byteRate      |-> getUint32(bytes, 28),
      blockAlign    |-> getUint16(bytes, 32),
      bitsPerSample |-> getUint16(bytes, 34),
      subchunk2Id   |-> getString(bytes, 36),
      subchunk2Size |-> getUint32(bytes, 40),
      samples       |-> [i \in 1..(getUint32(bytes, 40) \div 2)
                            |-> getInt16(bytes, 44 + 2 * (i - 1))] ]

(***************************************************************************)
(* Inputs of the encoder taken on its own.                                 *)
(***************************************************************************)
Int16Values == {-32768, -2, -1, 0, 1, 255, 256, 32767}
SampleRates == {8000, 44100, 768000}
ChannelCounts == {1, 2, 8}

RECURSIVE SeqsUpTo(_, _)
SeqsUpTo(S, n) ==
    IF n = 0 THEN {<<>>}
    ELSE LET shorter == SeqsUpTo(S, n - 1)
         IN  shorter \cup {Append(s, x) : s \in shorter, x \in S}

NoWav == [pcmData |-> <<>>, sampleRate |-> 0, channels |-> 0]

(***************************************************************************)
(* PCM conversion of the capture callback.  A sample is the rational       *)
(* n / SampleDen; the value assigned to the Int16Array element is the      *)
(* product truncated toward zero and wrapped to 16 bits (ToInt16).         *)
(***************************************************************************)
SampleDen == 4

Max2(a, b) == IF a >= b THEN a ELSE b
Min2(a, b) == IF a <= b THEN a ELSE b

\* truncation toward zero of a / b, b > 0
TruncDiv(a, b) == IF a >= 0 THEN a \div b ELSE -((-a) \div b)

ToInt16(x) == ((x + 32768) % 65536) - 32768

clampSample_m(n) == n

\* Math.max(-1, Math.min(1, inputData[i]))
clampSample(n) == Max2(-SampleDen, Min2(SampleDen, n))

\* pcm16[i] = s < 0 ? s * 0x8000 : s * 0x7FFF
pcmSample(n) ==
    LET s == clampSample(n)
    IN  ToInt16(IF s < 0 THEN TruncDiv(s * 32768, SampleDen)
                         ELSE TruncDiv(s * 32767, SampleDen))

pcmFrame(inputData) == [i \in 1..Len(inputData) |-> pcmSample(inputData[i])]

(***************************************************************************)
(* stopRecording's concatenation: totalLength, then combinedPCM.set(chunk, *)
(* offset) chunk by chunk with offset advanced by chunk.length.            *)
(***************************************************************************)
RECURSIVE totalLength(_)
totalLength(chunks) ==
    IF chunks = <<>> THEN 0 ELSE Len(Head(chunks)) + totalLength(Tail(chunks))

\* TypedArray.set(chunk, offset)
setArray(array, chunk, offset) ==
    [i \in 1..Len(array) |->
        IF i > offset /\ i <= offset + Len(chunk) THEN chunk[i - offset] ELSE array[i]]

RECURSIVE combineFrom_m(_, _, _)
combineFrom_m(array, chunks, offset) ==
    IF chunks = <<>> THEN array
    ELSE combineFrom_m(setArray(array, Head(chunks), offset), Tail(chunks), offset)

RECURSIVE combineFrom(_, _, _)
combineFrom(array, chunks, offset) ==
    IF chunks = <<>> THEN array
    ELSE combineFrom(setArray(array, Head(chunks), offset), Tail(chunks),
                     offset + Len(Head(chunks)))

combineChunks(chunks) ==
    combineFrom([i \in 1..totalLength(chunks) |-> 0], chunks, 0)

(***************************************************************************)
(* monitorAudioQuality's score, as the exact rational num / den with       *)
(* den = 10 * 255 * bufferLength.                                          *)
(***************************************************************************)
RECURSIVE SumSeq(_)
SumSeq(s) == IF s = <<>> THEN 0 ELSE Head(s) + SumSeq(Tail(s))

SeqRange(s) == {s[i] : i \in DOMAIN s}
MaxOf(S) == CHOOSE x \in S : \A y \in S : y <= x
MinOf(S) == CHOOSE x \in S : \A y \in S : x <= y

\* denominator shared by the three partial scores
qDen(dataArray) == 255 * Len(dataArray)

volumeScore_m(dataArray) ==
    Min2(40 * qDen(dataArray), 40 * (255 * Len(dataArray) - SumSeq(dataArray)))

\* Math.min(40, (avgVolume / 255) * 40), times qDen
volumeScore(dataArray) == Min2(40 * qDen(dataArray), 40 * SumSeq(dataArray))

\* dataArray.filter(v => v > 10).length
nonZeroFreqs(dataArray) == Cardinality({i \in DOMAIN dataArray : dataArray[i] > 10})

\* Math.min(30, (nonZeroFreqs / bufferLength) * 30), times qDen
freqScore(dataArray) == Min2(30 * qDen(dataArray), nonZeroFreqs(dataArray) * 30 * 255)

\* maxVolume - Math.min(...dataArray)
dynamicRange(dataArray) == MaxOf(SeqRange(dataArray)) - MinOf(SeqRange(dataArray))

\* Math.min(30, (dynamicRange / 255) * 30), times qDen
rangeScore(dataArray) ==
    Min2(30 * qDen(dataArray), dynamicRange(dataArray) * 30 * Len(dataArray))

rawScore(dataArray) ==
    volumeScore(dataArray) + freqScore(dataArray) + rangeScore(dataArray)

clampScore_m(raw, den) == [num |-> Min2(10 * den, raw), den |-> den]

\* Math.max(1, Math.min(10, qualityScore / 10)) as num / den
clampScore(raw, den) == [num |-> Max2(den, Min2(10 * den, raw)), den |-> den]

qualityOf(dataArray) == clampScore(rawScore(dataArray), 10 * qDen(dataArray))

updateQualityDisplay_m(score) ==
    IF score.num > 8 * score.den THEN [desc |-> "Excellent", recommendedModel |-> "model1"]
    ELSE IF score.num >= 5 * score.den THEN [desc |-> "Good", recommendedModel |-> "model2"]
    ELSE IF score.num >= 3 * score.den THEN [desc |-> "Moderate", recommendedModel |-> "model3"]
    ELSE [desc |-> "Poor", recommendedModel |-> "model3"]

\* the tier and recommended model chosen by updateQualityDisplay(score)
updateQualityDisplay(score) ==
    IF score.num >= 8 * score.den THEN [desc |-> "Excellent", recommendedModel |-> "model1"]
    ELSE IF score.num >= 5 * score.den THEN [desc |-> "Good", recommendedModel |-> "model2"]
    ELSE IF score.num >= 3 * score.den THEN [desc |-> "Moderate", recommendedModel |-> "model3"]
    ELSE [desc |-> "Poor", recommendedModel |-> "model3"]

(***************************************************************************)
(* Input alphabets: what the microphone and the analyser may deliver.      *)
(***************************************************************************)
MaxChunks == 2
MaxSessions == 2
MaxFrameLen == 2
MaxBins == 2

\* sample numerators from -1.5 to 1.5 (values outside [-1, 1] included)
SampleNums == (-(SampleDen + SampleDen \div 2))..(SampleDen + SampleDen \div 2)

WideFrames == SeqsUpTo(SampleNums, MaxFrameLen) \ {<<>>}
CaptureFrames == {<<SampleDen \div 2>>, <<-SampleDen, SampleDen + 1>>}
OneFrame == {<<0>>}

BinValues == {0, 10, 11, 245, 255}
TierSnapshots == {<<125, 127>>, <<8, 9, 118>>, <<11, 142, 231, 231>>, <<0, 255, 255, 255>>}
WideSnapshots == (SeqsUpTo(BinValues, MaxBins) \ {<<>>}) \cup TierSnapshots
QuietSnapshots == {<<0>>}

(***************************************************************************)
(* The voice analysis of integrated.py and speech_classification.py.       *)
(* A float is the exact rational num / den (den > 0); frequencies are      *)
(* whole hertz.                                                            *)
(***************************************************************************)
Rat(n, d) == [num |-> n, den |-> d]
RInt(n) == Rat(n, 1)
RLt(a, b) == a.num * b.den < b.num * a.den
RLe(a, b) == a.num * b.den <= b.num * a.den
REq(a, b) == a.num * b.den = b.num * a.den
RAdd(a, b) ==
    IF a.den = b.den THEN Rat(a.num + b.num, a.den)
    ELSE Rat(a.num * b.den + b.num * a.den, a.den * b.den)
RSub(a, b) ==
    IF a.den = b.den THEN Rat(a.num - b.num, a.den)
    ELSE Rat(a.num * b.den - b.num * a.den, a.den * b.den)
RMul(a, b) == Rat(a.num * b.num, a.den * b.den)

RECURSIVE insertSorted(_, _)
insertSorted(x, s) ==
    IF s = <<>> THEN <<x>>
    ELSE IF x <= Head(s) THEN <<x>> \o s
    ELSE <<Head(s)>> \o insertSorted(x, Tail(s))

RECURSIVE np_sort(_)
np_sort(s) == IF s = <<>> THEN <<>> ELSE insertSorted(Head(s), np_sort(Tail(s)))

\* np.percentile(a, q), linear interpolation between the two nearest ranks
np_percentile(s, q) ==
    LET a == np_sort(s)
        n == Len(a)
        pos == q * (n - 1)
        lo == pos \div 100
        hi == IF lo + 1 < n THEN lo + 1 ELSE lo
    IN Rat(100 * a[lo + 1] + (pos % 100) * (a[hi + 1] - a[lo + 1]), 100)

np_mean(s) == Rat(SumSeq(s), Len(s))

np_median(s) ==
    LET a == np_sort(s)
        n == Len(a)
    IN IF n % 2 = 1 THEN RInt(a[(n + 1) \div 2])
       ELSE Rat(a[n \div 2] + a[n \div 2 + 1], 2)

RECURSIVE SumSq(_)
SumSq(s) == IF s = <<>> THEN 0 ELSE Head(s) * Head(s) + SumSq(Tail(s))

RECURSIVE isqrtIn(_, _, _)
isqrtIn(x, lo, hi) ==
    IF lo = hi THEN lo
    ELSE LET mid == (lo + hi + 1) \div 2
         IN IF mid * mid <= x THEN isqrtIn(x, mid, hi) ELSE isqrtIn(x, lo, mid - 1)

\* the largest r with r * r <= x
isqrt(x) == isqrtIn(x, 0, IF x < 46340 THEN x ELSE 46340)

\* a square root is kept to 1 / StdScale
StdScale == 10

\* np.std(a): sqrt(mean((a - mean(a))^2)), the root cut to 1 / StdScale
np_std(s) ==
    LET n == Len(s)
        v == n * SumSq(s) - SumSeq(s) * SumSeq(s)
    IN Rat(isqrt(StdScale * StdScale * v), StdScale * n)

np_ptp(s) == RInt(MaxOf(SeqRange(s)) - MinOf(SeqRange(s)))

positive(s) == SelectSeq(s, LAMBDA p : p > 0)

\* the [150] standing in for a merged set without any observation
noPitch_m == <<>>
noPitch == <<150>>

\* np.concatenate of the two passes: speech_classification.py takes the
\* second pass twice
concatenatePasses(mod, pitch_values, f0_values) ==
    IF mod = "speech_classification" THEN pitch_values \o f0_values \o f0_values
    ELSE pitch_values \o f0_values

\* combined_pitch; yin_raises when librosa.yin raised (the bare except)
combinedPitch(mod, pitches, yin_raises, yin) ==
    LET pitch_values == positive(pitches)
    IN IF yin_raises
       THEN (IF Len(pitch_values) > 0 THEN pitch_values ELSE noPitch)
       ELSE LET f0_values == positive(yin)
            IN IF Len(f0_values) > 0
               THEN (IF Len(pitch_values) > 0
                     THEN concatenatePasses(mod, pitch_values, f0_values)
                     ELSE f0_values)
               ELSE (IF Len(pitch_values) > 0 THEN pitch_values ELSE noPitch)

fenceFactor_m == Rat(-3, 2)

fenceFactor == Rat(3, 2)

inFence_m(p, q1, q3) ==
    LET iqr == RSub(q3, q1)
    IN /\ RLt(RSub(q1, RMul(fenceFactor, iqr)), RInt(p))
       /\ RLt(RInt(p), RAdd(q3, RMul(fenceFactor, iqr)))

\* q1-1.5*iqr <= p <= q3+1.5*iqr
inFence(p, q1, q3) ==
    LET iqr == RSub(q3, q1)
    IN /\ RLe(RSub(q1, RMul(fenceFactor, iqr)), RInt(p))
       /\ RLe(RInt(p), RAdd(q3, RMul(fenceFactor, iqr)))

filteredPitch(combined_pitch) ==
    LET q1 == np_percentile(combined_pitch, 25)
        q3 == np_percentile(combined_pitch, 75)
    IN SelectSeq(combined_pitch, LAMBDA p : inFence(p, q1, q3))

pitchDefaults ==
    [pitch_mean |-> RInt(150), pitch_median |-> RInt(150),
     pitch_std |-> RInt(30), pitch_range |-> RInt(100)]

\* the "Pitch extraction" part: the keys it adds to features
pitchFeatures(combined_pitch) ==
    IF Len(combined_pitch) > 0
    THEN LET filtered_pitch == filteredPitch(combined_pitch)
         IN IF Len(filtered_pitch) > 0
            THEN [pitch_mean   |-> np_mean(filtered_pitch),
                  pitch_median |-> np_median(filtered_pitch),
                  pitch_std    |-> np_std(filtered_pitch),
                  pitch_range  |-> np_ptp(filtered_pitch)]
            ELSE pitchDefaults
    ELSE <<>>

isF1(f) == 200 < f /\ f < 1200
isF2_m(f) == 1200 <= f /\ f < 3500
isF2(f) == 800 < f /\ f < 3500

\* the "Formants" part
formantFeatures(spectral_peaks) ==
    IF Len(spectral_peaks) > 0
    THEN LET f1_candidates == SelectSeq(spectral_peaks, isF1)
             f2_candidates == SelectSeq(spectral_peaks, isF2)
         IN [formant_f1_mean |-> IF Len(f1_candidates) > 0
                                 THEN np_mean(f1_candidates) ELSE RInt(500),
             formant_f2_mean |-> IF Len(f2_candidates) > 0
                                 THEN np_mean(f2_candidates) ELSE RInt(1500)]
    ELSE [formant_f1_mean |-> RInt(500), formant_f2_mean |-> RInt(1500)]

\* the means librosa delivers, passed on as they are; harmonic and
\* percussive are in millionths, so that adding 1e-6 adds one
otherFeatures(a) ==
    [spectral_centroid_mean |-> a.spectral_centroid_mean,
     spectral_flatness_mean |-> a.spectral_flatness_mean,
     zcr_mean |-> a.zcr_mean,
     rms_mean |-> a.rms_mean,
     harmonic_mean |-> Rat(a.harmonic, 1000000),
     percussive_mean |-> Rat(a.percussive, 1000000),
     harmonic_to_percussive_ratio |-> Rat(a.harmonic, a.percussive + 1)]

\* features (mfcc_*, tempo and duration, which no function here reads,
\* left out); a later key overrides nothing, the three parts are disjoint
extract_audio_features(mod, a) ==
    otherFeatures(a) @@ formantFeatures(a.peaks)
        @@ pitchFeatures(combinedPitch(mod, a.pitches, a.yin_raises, a.yin))

RAbs(a) == IF a.num < 0 THEN Rat(-a.num, a.den) ELSE a
RMin(a, b) == IF RLe(a, b) THEN a ELSE b
RMax(a, b) == IF RLe(a, b) THEN b ELSE a

\* the if / elif chain on effective_pitch
pitchCue_m(effective_pitch) ==
    IF RLt(effective_pitch, RInt(140)) THEN -4
    ELSE IF RLt(effective_pitch, RInt(155)) THEN -2
    ELSE IF RLe(effective_pitch, RInt(175)) THEN 0
    ELSE IF RLt(effective_pitch, RInt(200)) THEN 2
    ELSE 4

pitchCue(effective_pitch) ==
    IF RLt(effective_pitch, RInt(140)) THEN -4
    ELSE IF RLt(effective_pitch, RInt(155)) THEN -2
    ELSE IF RLt(effective_pitch, RInt(175)) THEN 0
    ELSE IF RLt(effective_pitch, RInt(200)) THEN 2
    ELSE 4

formantCue(f1, f2) ==
    IF RLt(f1, RInt(520)) /\ RLt(f2, RInt(1400)) THEN -3
    ELSE IF RLt(RInt(620), f1) /\ RLt(RInt(1700), f2) THEN 3
    ELSE 0

centroidCue_m(spectral_centroid_mean) ==
    IF RLt(spectral_centroid_mean, RInt(1500)) THEN RInt(-3)
    ELSE IF RLt(RInt(2500), spectral_centroid_mean) THEN RInt(3)
    ELSE RInt(0)

centroidCue(spectral_centroid_mean) ==
    IF RLt(spectral_centroid_mean, RInt(1500)) THEN Rat(-3, 2)
    ELSE IF RLt(RInt(2500), spectral_centroid_mean) THEN Rat(3, 2)
    ELSE RInt(0)

\* gender_score after the three updates
genderScore(features) ==
    RAdd(RInt(pitchCue(features.pitch_median)
              + formantCue(features.formant_f1_mean, features.formant_f2_mean)),
         centroidCue(features.spectral_centroid_mean))

tieBreak_m(effective_pitch) ==
    IF RLe(effective_pitch, RInt(165)) THEN "male" ELSE "female"

\* 'male' if effective_pitch < 165 else 'female'
tieBreak(effective_pitch) ==
    IF RLt(effective_pitch, RInt(165)) THEN "male" ELSE "female"

decisiveConf_m(gender_score) ==
    RAdd(RInt(60), RMul(RAbs(gender_score), RInt(8)))

\* float(min(95, 60 + abs(gender_score) * 8))
decisiveConf(gender_score) ==
    RMin(RInt(95), RAdd(RInt(60), RMul(RAbs(gender_score), RInt(8))))

ageScore_m(features) ==
    (IF RLe(features.pitch_std, RInt(15)) THEN 2 ELSE 0)
    + (IF RLt(Rat(35, 100), features.spectral_flatness_mean) THEN 2 ELSE 0)

ageScore(features) ==
    (IF RLt(features.pitch_std, RInt(15)) THEN 2 ELSE 0)
    + (IF RLt(Rat(35, 100), features.spectral_flatness_mean) THEN 2 ELSE 0)

\* returns gender, conf, age_category, 70.0
estimate_gender_age(features) ==
    LET gender_score == genderScore(features)
        effective_pitch == features.pitch_median
        gender == IF RLt(gender_score, Rat(-3, 2)) THEN "male"
                  ELSE IF RLt(Rat(3, 2), gender_score) THEN "female"
                  ELSE tieBreak(effective_pitch)
        conf == IF RLt(gender_score, Rat(-3, 2)) \/ RLt(Rat(3, 2), gender_score)
                THEN decisiveConf(gender_score)
                ELSE RInt(55)
        age_score == ageScore(features)
        age_category == IF age_score <= 0 THEN "young"
                        ELSE IF age_score <= 2 THEN "middle"
                        ELSE "senior"
    IN <<gender, conf, age_category, RInt(70)>>

np_clip_m(x, lo, hi) == RMin(x, RInt(hi))

np_clip(x, lo, hi) == RMax(RInt(lo), RMin(x, RInt(hi)))

\* round(x, 1) of x >= 0, in tenths: to the nearest tenth, a tie to the even one
round1(x) ==
    LET n == 10 * x.num
        q == n \div x.den
        r == n % x.den
    IN Rat(IF 2 * r < x.den THEN q
           ELSE IF 2 * r > x.den THEN q + 1
           ELSE IF q % 2 = 0 THEN q ELSE q + 1, 10)

bassRaw_m(pitch_mean) ==
    RSub(RInt(10), RMul(RSub(pitch_mean, RInt(80)), Rat(1, 10)))

\* 10 - (features['pitch_mean'] - 80) / 20
bassRaw(pitch_mean) ==
    RSub(RInt(10), RMul(RSub(pitch_mean, RInt(80)), Rat(1, 20)))

calculate_voice_scores(features) ==
    LET bass == round1(np_clip(bassRaw(features.pitch_mean), 0, 10))
        smoothness == round1(np_clip(RSub(RInt(10),
                          RMul(features.pitch_std, Rat(1, 10))), 0, 10))
    IN [bass |-> bass,
        treble |-> round1(np_clip(RMul(RSub(features.spectral_centroid_mean,
                                            RInt(1000)), Rat(1, 300)), 0, 10)),
        clarity |-> round1(np_clip(RMul(features.zcr_mean, RInt(100)), 0, 10)),
        smoothness |-> smoothness,
        power |-> round1(np_clip(RMul(features.rms_mean, RInt(100)), 0, 10)),
        warmth |-> round1(RAdd(RMul(bass, Rat(6, 10)), RMul(smoothness, Rat(4, 10)))),
        richness |-> round1(np_clip(RMul(features.harmonic_to_percussive_ratio,
                                         RInt(2)), 0, 10)),
        pitch_variation |-> round1(np_clip(RMul(features.pitch_range, Rat(1, 50)),
                                           0, 10))]

(***************************************************************************)
(* Inputs of the voice analysis: what librosa may deliver for a file, and  *)
(* feature vectors handed to the classifier and the scorer directly.       *)
(***************************************************************************)
MaxPitch == 2
MaxF0 == 2
MaxPeaks == 2

Modules == {"integrated", "speech_classification"}

\* the pick of one frame: 0 is "no pitch"
RawPitch == {0, 95, 100, 105}
PeakFreqs == {200, 201, 800, 801, 1199, 1200, 3499, 3500}

QuietMeans ==
    [spectral_centroid_mean |-> RInt(2000), spectral_flatness_mean |-> Rat(1, 10),
     zcr_mean |-> Rat(5, 100), rms_mean |-> Rat(2, 100),
     harmonic |-> 3000, percussive |-> 999]

PassOutcomes ==
    [pitches : SeqsUpTo(RawPitch, MaxPitch), yin_raises : {FALSE},
     yin : SeqsUpTo(RawPitch, MaxF0)]
    \cup [pitches : SeqsUpTo(RawPitch, MaxPitch), yin_raises : {TRUE}, yin : {<<>>}]

PassSamples ==
    {[pitches |-> <<0>>, yin_raises |-> FALSE, yin |-> <<0, 0>>],
     [pitches |-> <<100>>, yin_raises |-> FALSE, yin |-> <<105>>]}

PeakSamples == {<<>>, <<22050, 22028>>, <<500, 1000, 2000>>}

AudioInputs ==
    {p @@ [peaks |-> k] @@ QuietMeans : p \in PassOutcomes, k \in PeakSamples}
    \cup {p @@ [peaks |-> k] @@ QuietMeans :
             p \in PassSamples, k \in SeqsUpTo(PeakFreqs, MaxPeaks)}

MedianValues ==
    {RInt(100), RInt(139), RInt(140), RInt(154), RInt(155), RInt(164), Rat(329, 2),
     RInt(165), RInt(174), RInt(175), RInt(199), RInt(200), RInt(250)}
F1Values == {RInt(450), RInt(520), RInt(570), RInt(620), RInt(650)}
F2Values == {RInt(1200), RInt(1400), RInt(1500), RInt(1700), RInt(1800)}
CentroidValues == {RInt(1200), RInt(1500), RInt(2000), RInt(2500), RInt(2600)}
StdValues == {RInt(0), Rat(149, 10), RInt(15), RInt(30)}
FlatnessValues == {Rat(1, 10), Rat(35, 100), Rat(36, 100)}

GenderVectors ==
    {[pitch_mean |-> RInt(150), pitch_median |-> m, pitch_std |-> s,
      pitch_range |-> RInt(100), formant_f1_mean |-> f1, formant_f2_mean |-> f2]
     @@ otherFeatures([QuietMeans EXCEPT !.spectral_centroid_mean = c,
                                         !.spectral_flatness_mean = fl]) :
        m \in MedianValues, s \in StdValues, f1 \in F1Values, f2 \in F2Values,
        c \in CentroidValues, fl \in FlatnessValues}

MeanValues == {RInt(60), RInt(80), RInt(101), RInt(180), RInt(280), RInt(300)}
WideCentroids == {RInt(900), RInt(1000), RInt(1150), RInt(2500), RInt(4000), RInt(4100)}
ZcrValues == {RInt(0), Rat(5, 100), Rat(1, 10), Rat(2, 10)}
WideStds == {RInt(0), RInt(5), RInt(30), RInt(100), RInt(150)}
RmsValues == {RInt(0), Rat(2, 100), Rat(15, 100)}
Separations == {<<0, 0>>, <<3000, 999>>, <<9000, 0>>}
RangeValues == {RInt(0), RInt(100), RInt(349), RInt(350)}

ScoreVectorsAll ==
    {[pitch_mean |-> pm, pitch_median |-> RInt(150), pitch_std |-> s,
      pitch_range |-> pr, formant_f1_mean |-> RInt(500),
      formant_f2_mean |-> RInt(1500)]
     @@ otherFeatures([QuietMeans EXCEPT !.spectral_centroid_mean = c,
                                         !.zcr_mean = z, !.rms_mean = r,
                                         !.harmonic = hp[1], !.percussive = hp[2]]) :
        pm \in MeanValues, c \in WideCentroids, z \in ZcrValues, s \in WideStds,
        r \in RmsValues, hp \in Separations, pr \in RangeValues}

\* the deviation of values at most pitch_range apart is at most half of it
ScoreVectors ==
    {v \in ScoreVectorsAll : RLe(RMul(v.pitch_std, RInt(2)), v.pitch_range)}

VARIABLES
    wavIn,            \* the arguments of a createWavFile call made on its own
    wavBytes,         \* the bytes it returned (<<>> before the call)
    wavDecoded,       \* what the decoder read back (<<>> before decoding)
    isRecording,      \* let isRecording
    audioChunks,      \* let audioChunks: the Int16Arrays pushed by the callback
    sampleRate,       \* let sampleRate
    currentQuality,   \* let currentQuality, as [num, den]
    display,          \* qualityDesc text and recommended model (updateQualityDisplay)
    startBtnDisabled, \* #startBtn.disabled
    stopBtnDisabled,  \* #stopBtn.disabled
    awaiting,         \* startRecording calls suspended at await getUserMedia
    recognition,      \* SpeechRecognition: "idle", "started" or "stopping"
    scriptProcessor,  \* a ScriptProcessorNode with onaudioprocess exists
    timers,           \* pending setTimeout(monitorAudioQuality, 500), oldest first;
                      \* each entry is the session whose start began the chain
    uploads,          \* WAV blobs being read by FileReader, not yet POSTed
    savedFiles,       \* the bodies written by /save_audio, in order
    combinedPCM,      \* the combinedPCM of the last stopRecording
    wavBlob,          \* the wavBlob of the last stopRecording
    dataArray,        \* the snapshot read by the last effective monitor tick
    session,          \* history: number of sessions begun (isRecording set)
    accepted,         \* history: input frames accepted since audioChunks was emptied
    lastTick,         \* history: chain and effect of the last monitorAudioQuality
    chunkSession,     \* history: for each of audioChunks, the session that pushed it
    artifact,         \* history: the session of the last stopRecording and the
                      \* sessions of the chunks its WAV was built from
    module,           \* which file's analysis runs: "integrated" or "speech_classification"
    audio,            \* what librosa delivers for the file analysed (<<>>: none)
    features,         \* the dict extract_audio_features returned (<<>> before)
    combined_pitch,   \* history: the combined_pitch of that call
    verdict,          \* what estimate_gender_age returned (<<>> before)
    gender_score,     \* history: the gender_score of that call
    scores,           \* what calculate_voice_scores returned (<<>> before)
    profiles,         \* history: the feature vector and the result of every
                      \* classification made one after another
    GROQ_API_KEY,     \* whether os.getenv('GROQ_API_KEY') is set in the server
    now,              \* the server clock, in whole seconds
    audioDir,         \* Audio/: recording_{timestamp}.wav, by timestamp
    gameDir,          \* GameData/: game_state_{timestamp}.json, by timestamp
    requests,         \* the /save_audio requests being handled, by thread
    flaskSession,     \* speech_classification.py: the session cookie, as the
                      \* dict of the keys it holds
    lastCall,         \* history: the last /analyze call (the list unlocked
                      \* before it, its new_achievements, its add_xp calls)
    xpAwards          \* history: for each achievement, how often its XP was added

wavVars == <<wavIn, wavBytes, wavDecoded>>

appVars == <<isRecording, audioChunks, sampleRate, currentQuality, display,
             startBtnDisabled, stopBtnDisabled, awaiting, recognition,
             scriptProcessor, timers, uploads, savedFiles, combinedPCM, wavBlob,
             dataArray, session, accepted, lastTick, chunkSession, artifact>>

voiceVars == <<module, audio, features, combined_pitch, verdict, gender_score, scores,
              profiles>>

saveVars == <<GROQ_API_KEY, now, audioDir, gameDir, requests>>

questVars == <<flaskSession, lastCall, xpAwards>>

serverVars == <<GROQ_API_KEY, now, audioDir, gameDir, requests, flaskSession,
                lastCall, xpAwards>>

vars == <<wavIn, wavBytes, wavDecoded, isRecording, audioChunks, sampleRate,
          currentQuality, display, startBtnDisabled, stopBtnDisabled, awaiting,
          recognition, scriptProcessor, timers, uploads, savedFiles, combinedPCM,
          wavBlob, dataArray, session, accepted, lastTick, chunkSession,
          artifact, module, audio,
          features, combined_pitch, verdict, gender_score, scores, profiles,
          GROQ_API_KEY, now, audioDir, gameDir, requests, flaskSession,
          lastCall, xpAwards>>

\* the page as loaded: the "Recording variables" and the two buttons
InitApp ==
    /\ isRecording = FALSE
    /\ audioChunks = <<>>
    /\ sampleRate = 44100
    /\ currentQuality = [num |-> 0, den |-> 1]
    /\ display = [desc |-> "", recommendedModel |-> ""]
    /\ startBtnDisabled = FALSE
    /\ stopBtnDisabled = TRUE
    /\ awaiting = 0
    /\ recognition = "idle"
    /\ scriptProcessor = FALSE
    /\ timers = <<>>
    /\ uploads = <<>>
    /\ savedFiles = <<>>
    /\ combinedPCM = <<>>
    /\ wavBlob = <<>>
    /\ dataArray = <<>>
    /\ session = 0
    /\ accepted = <<>>
    /\ lastTick = [chain |-> 0, session |-> 0, effect |-> FALSE]
    /\ chunkSession = <<>>
    /\ artifact = [session |-> 0, chunks |-> <<>>]

InitNoWav ==
    /\ wavIn = NoWav
    /\ wavBytes = <<>>
    /\ wavDecoded = <<>>

(* The voice analysis a /save_audio request runs on the saved file:        *)
(* extract_audio_features, then estimate_gender_age and                    *)
(* calculate_voice_scores on the features.                                 *)
(***************************************************************************)
InitNoVoice ==
    /\ module = "integrated"
    /\ audio = <<>>
    /\ features = <<>>
    /\ combined_pitch = <<>>
    /\ verdict = <<>>
    /\ gender_score = RInt(0)
    /\ scores = <<>>
    /\ profiles = <<>>

\* no /save_audio request yet, the two directories as makedirs left them
InitNoSave ==
    /\ GROQ_API_KEY = TRUE
    /\ now = 1
    /\ audioDir = <<>>
    /\ gameDir = <<>>
    /\ requests = <<>>

\* a browser without the cookie of speech_classification.py
InitNoQuest ==
    /\ flaskSession = <<>>
    /\ lastCall = <<>>
    /\ xpAwards = <<>>

InitNoServer == InitNoSave /\ InitNoQuest

Init == InitApp /\ InitNoWav /\ InitNoVoice /\ InitNoServer

(***************************************************************************)
(* monitorAudioQuality, run for the timer chain `chain` with `pending`     *)
(* the timers left pending and `recording` the value of isRecording it     *)
(* reads; dataIn is what analyser.getByteFrequencyData delivers.           *)
(***************************************************************************)
monitorAudioQuality(recording, dataIn, chain, pending, sess) ==
    IF ~recording
    THEN /\ timers' = pending
         /\ lastTick' = [chain |-> chain, session |-> sess, effect |-> FALSE]
         /\ UNCHANGED <<currentQuality, display, dataArray>>
    ELSE /\ dataArray' = dataIn
         /\ currentQuality' = qualityOf(dataIn)
         /\ display' = updateQualityDisplay(qualityOf(dataIn))
         /\ timers' = Append(pending, chain)
         /\ lastTick' = [chain |-> chain, session |-> sess, effect |-> TRUE]

\* startRecording up to its await: the click on #startBtn
startRecording ==
    /\ ~startBtnDisabled
    /\ audioChunks' = <<>>
    /\ accepted' = <<>>
    /\ awaiting' = awaiting + 1
    /\ UNCHANGED <<isRecording, sampleRate, currentQuality, display, startBtnDisabled,
                   stopBtnDisabled, recognition, scriptProcessor, timers, uploads,
                   savedFiles, combinedPCM, wavBlob, dataArray, session, lastTick>>
    /\ chunkSession' = <<>>
    /\ UNCHANGED artifact
    /\ UNCHANGED wavVars
    /\ UNCHANGED voiceVars
    /\ UNCHANGED serverVars

\* getUserMedia rejects: the catch block, nothing else runs
startRecording_denied ==
    /\ awaiting > 0
    /\ awaiting' = awaiting - 1
    /\ UNCHANGED <<isRecording, audioChunks, sampleRate, currentQuality, display,
                   startBtnDisabled, stopBtnDisabled, recognition, scriptProcessor,
                   timers, uploads, savedFiles, combinedPCM, wavBlob, dataArray,
                   session, accepted, lastTick>>
    /\ UNCHANGED <<chunkSession, artifact>>
    /\ UNCHANGED wavVars
    /\ UNCHANGED voiceVars
    /\ UNCHANGED serverVars

\* getUserMedia resolves: the rest of startRecording.  recognition.start()
\* throws InvalidStateError unless the recogniser is idle, and the catch
\* block then skips everything after it.
startRecording_resume(dataIn) ==
    /\ awaiting > 0
    /\ awaiting' = awaiting - 1
    /\ sampleRate' = 44100
    /\ scriptProcessor' = TRUE
    /\ IF recognition # "idle"
       THEN UNCHANGED <<isRecording, currentQuality, display, startBtnDisabled,
                        stopBtnDisabled, recognition, timers, dataArray, session,
                        lastTick>>
       ELSE /\ recognition' = "started"
            /\ isRecording' = TRUE
            /\ startBtnDisabled' = TRUE
            /\ stopBtnDisabled' = FALSE
            /\ session' = session + 1
            /\ monitorAudioQuality(TRUE, dataIn, session + 1, timers, session + 1)
    /\ UNCHANGED <<audioChunks, uploads, savedFiles, combinedPCM, wavBlob, accepted>>
    /\ UNCHANGED <<chunkSession, artifact>>
    /\ UNCHANGED wavVars
    /\ UNCHANGED voiceVars
    /\ UNCHANGED serverVars

\* scriptProcessor.onaudioprocess
onaudioprocess(inputData) ==
    /\ scriptProcessor
    /\ IF ~isRecording
       THEN UNCHANGED <<audioChunks, accepted>>
       ELSE /\ audioChunks' = Append(audioChunks, pcmFrame(inputData))
            /\ accepted' = Append(accepted, inputData)
    /\ UNCHANGED <<isRecording, sampleRate, currentQuality, display, startBtnDisabled,
                   stopBtnDisabled, awaiting, recognition, scriptProcessor, timers,
                   uploads, savedFiles, combinedPCM, wavBlob, dataArray, session,
                   lastTick>>
    /\ chunkSession' = IF isRecording THEN Append(chunkSession, session) ELSE chunkSession
    /\ UNCHANGED artifact
    /\ UNCHANGED wavVars
    /\ UNCHANGED voiceVars
    /\ UNCHANGED serverVars

\* the click on #stopBtn
stopRecording ==
    /\ ~stopBtnDisabled
    /\ isRecording' = FALSE
    /\ recognition' = IF recognition = "started" THEN "stopping" ELSE recognition
    /\ startBtnDisabled' = FALSE
    /\ stopBtnDisabled' = TRUE
    /\ combinedPCM' = combineChunks(audioChunks)
    /\ wavBlob' = createWavFile(combineChunks(audioChunks), sampleRate, 1)
    /\ uploads' = Append(uploads, createWavFile(combineChunks(audioChunks), sampleRate, 1))
    /\ UNCHANGED <<audioChunks, sampleRate, currentQuality, display, awaiting,
                   scriptProcessor, timers, savedFiles, dataArray, session, accepted,
                   lastTick>>
    /\ artifact' = [session |-> session, chunks |-> chunkSession]
    /\ UNCHANGED chunkSession
    /\ UNCHANGED wavVars
    /\ UNCHANGED voiceVars
    /\ UNCHANGED serverVars

\* a setTimeout(() => monitorAudioQuality(), 500) fires
monitorTimer(dataIn) ==
    /\ timers # <<>>
    /\ monitorAudioQuality(isRecording, dataIn, Head(timers), Tail(timers), session)
    /\ UNCHANGED <<isRecording, audioChunks, sampleRate, startBtnDisabled,
                   stopBtnDisabled, awaiting, recognition, scriptProcessor, uploads,
                   savedFiles, combinedPCM, wavBlob, session, accepted>>
    /\ UNCHANGED <<chunkSession, artifact>>
    /\ UNCHANGED wavVars
    /\ UNCHANGED voiceVars
    /\ UNCHANGED serverVars

\* recognition.onend, fired by the recogniser after recognition.stop()
recognition_onend ==
    /\ recognition = "stopping"
    /\ recognition' = IF isRecording THEN "started" ELSE "idle"
    /\ UNCHANGED <<isRecording, audioChunks, sampleRate, currentQuality, display,
                   startBtnDisabled, stopBtnDisabled, awaiting, scriptProcessor,
                   timers, uploads, savedFiles, combinedPCM, wavBlob, dataArray,
                   session, accepted, lastTick>>
    /\ UNCHANGED <<chunkSession, artifact>>
    /\ UNCHANGED wavVars
    /\ UNCHANGED voiceVars
    /\ UNCHANGED serverVars

\* reader.onloadend: the POST to /save_audio, which writes the decoded body
reader_onloadend ==
    /\ uploads # <<>>
    /\ savedFiles' = Append(savedFiles, Head(uploads))
    /\ uploads' = Tail(uploads)
    /\ UNCHANGED <<isRecording, audioChunks, sampleRate, currentQuality, display,
                   startBtnDisabled, stopBtnDisabled, awaiting, recognition,
                   scriptProcessor, timers, combinedPCM, wavBlob, dataArray, session,
                   accepted, lastTick>>
    /\ UNCHANGED <<chunkSession, artifact>>
    /\ UNCHANGED wavVars
    /\ UNCHANGED voiceVars
    /\ UNCHANGED serverVars

(***************************************************************************)
(* The page, with the capture alphabet and a silent analyser.              *)
(***************************************************************************)
Next ==
    \/ (session + awaiting < MaxSessions /\ startRecording)
    \/ startRecording_denied
    \/ \E d \in QuietSnapshots : startRecording_resume(d)
    \/ (Len(audioChunks) < MaxChunks /\ \E f \in CaptureFrames : onaudioprocess(f))
    \/ stopRecording
    \/ \E d \in QuietSnapshots : monitorTimer(d)
    \/ recognition_onend
    \/ reader_onloadend

Spec == Init /\ [][Next]_vars

(***************************************************************************)
(* One session, every input frame of the wide alphabet.                    *)
(***************************************************************************)
NextPcm ==
    \/ (session + awaiting < 1 /\ startRecording)
    \/ startRecording_denied
    \/ \E d \in QuietSnapshots : startRecording_resume(d)
    \/ (audioChunks = <<>> /\ \E f \in WideFrames : onaudioprocess(f))
    \/ stopRecording
    \/ \E d \in QuietSnapshots : monitorTimer(d)
    \/ recognition_onend
    \/ reader_onloadend

SpecPcm == Init /\ [][NextPcm]_vars

(***************************************************************************)
(* One session, every analyser snapshot of the wide alphabet.              *)
(***************************************************************************)
NextQuality ==
    \/ (session + awaiting < 1 /\ startRecording)
    \/ startRecording_denied
    \/ \E d \in WideSnapshots : startRecording_resume(d)
    \/ (audioChunks = <<>> /\ \E f \in OneFrame : onaudioprocess(f))
    \/ stopRecording
    \/ \E d \in WideSnapshots : monitorTimer(d)
    \/ recognition_onend
    \/ reader_onloadend

SpecQuality == Init /\ [][NextQuality]_vars

(***************************************************************************)
(* createWavFile on its own, over the encoder inputs.                      *)
(***************************************************************************)
InitWav ==
    /\ InitApp
    /\ wavIn \in [pcmData : SeqsUpTo(Int16Values, MaxSamples),
                  sampleRate : SampleRates,
                  channels : ChannelCounts]
    /\ wavBytes = <<>>
    /\ wavDecoded = <<>>
    /\ InitNoVoice
    /\ InitNoServer

WavEncode ==
    /\ wavBytes = <<>>
    /\ wavBytes' = createWavFile(wavIn.pcmData, wavIn.sampleRate, wavIn.channels)
    /\ UNCHANGED <<wavIn, wavDecoded>>
    /\ UNCHANGED appVars
    /\ UNCHANGED voiceVars
    /\ UNCHANGED serverVars

WavDecode ==
    /\ wavBytes # <<>>
    /\ wavDecoded = <<>>
    /\ wavDecoded' = decodeWav(wavBytes)
    /\ UNCHANGED <<wavIn, wavBytes>>
    /\ UNCHANGED appVars
    /\ UNCHANGED voiceVars
    /\ UNCHANGED serverVars

NextWav == WavEncode \/ WavDecode

SpecWav == InitWav /\ [][NextWav]_vars

(*****************************************************************************)
(* The voice analysis a /save_audio request runs on the saved file:        *)
(* extract_audio_features, then estimate_gender_age and                    *)
(* calculate_voice_scores on the features.                                 *)
(*****************************************************************************)
ExtractFeatures ==
    /\ audio # <<>>
    /\ features = <<>>
    /\ features' = extract_audio_features(module, audio)
    /\ combined_pitch' = combinedPitch(module, audio.pitches, audio.yin_raises, audio.yin)
    /\ UNCHANGED <<module, audio, verdict, gender_score, scores, profiles>>
    /\ UNCHANGED wavVars
    /\ UNCHANGED appVars
    /\ UNCHANGED serverVars

EstimateGenderAge ==
    /\ features # <<>>
    /\ verdict = <<>>
    /\ verdict' = estimate_gender_age(features)
    /\ gender_score' = genderScore(features)
    /\ UNCHANGED <<module, audio, features, combined_pitch, scores, profiles>>
    /\ UNCHANGED wavVars
    /\ UNCHANGED appVars
    /\ UNCHANGED serverVars

CalculateVoiceScores ==
    /\ features # <<>>
    /\ scores = <<>>
    /\ scores' = calculate_voice_scores(features)
    /\ UNCHANGED <<module, audio, features, combined_pitch, verdict, gender_score,
                   profiles>>
    /\ UNCHANGED wavVars
    /\ UNCHANGED appVars
    /\ UNCHANGED serverVars

(***************************************************************************)
(* Feature extraction over the outcomes of the two pitch passes and the    *)
(* spectral peaks, in either module.                                       *)
(***************************************************************************)
InitFeatures ==
    /\ InitApp
    /\ InitNoWav
    /\ module \in Modules
    /\ audio \in AudioInputs
    /\ features = <<>>
    /\ combined_pitch = <<>>
    /\ verdict = <<>>
    /\ gender_score = RInt(0)
    /\ scores = <<>>
    /\ profiles = <<>>
    /\ InitNoServer

NextFeatures == ExtractFeatures \/ EstimateGenderAge \/ CalculateVoiceScores

SpecFeatures == InitFeatures /\ [][NextFeatures]_vars

(***************************************************************************)
(* The classifier and the scorer over feature vectors.                     *)
(***************************************************************************)
InitClassify ==
    /\ InitApp
    /\ InitNoWav
    /\ module \in Modules
    /\ audio = <<>>
    /\ features \in GenderVectors \cup ScoreVectors
    /\ combined_pitch = <<>>
    /\ verdict = <<>>
    /\ gender_score = RInt(0)
    /\ scores = <<>>
    /\ profiles = <<>>
    /\ InitNoServer

NextClassify == EstimateGenderAge \/ CalculateVoiceScores

SpecClassify == InitClassify /\ [][NextClassify]_vars

(***************************************************************************)
(* One classification after another in the same server process.            *)
(***************************************************************************)
MaxProfiles == 3

\* a decisive male, a decisive female, the tie-break on either side of 165,
\* and the vector of a silent file
RepeatVectors ==
    {v \in GenderVectors :
        /\ v.pitch_median \in {RInt(100), RInt(164), RInt(165), RInt(250)}
        /\ v.pitch_std = RInt(30)
        /\ v.formant_f1_mean = RInt(570)
        /\ v.formant_f2_mean = RInt(1500)
        /\ v.spectral_centroid_mean = RInt(2000)
        /\ v.spectral_flatness_mean = Rat(1, 10)}
    \cup {v \in ScoreVectors :
            /\ v.pitch_mean = RInt(101)
            /\ v.spectral_centroid_mean = RInt(1150)
            /\ v.zcr_mean = Rat(5, 100)
            /\ v.pitch_std = RInt(5)
            /\ v.rms_mean = Rat(2, 100)
            /\ v.harmonic_mean = Rat(3000, 1000000)
            /\ v.pitch_range = RInt(100)}

\* a classifier that loses confidence with every call it has served
voiceProfile_m(f) ==
    LET e == estimate_gender_age(f)
    IN [gender |-> e[1], gender_conf |-> RSub(e[2], RInt(Len(profiles))),
        age_category |-> e[3], age_conf |-> e[4],
        voice_scores |-> calculate_voice_scores(f)]

\* gender, gender_conf, age_category, age_conf = estimate_gender_age(features)
\* voice_scores = calculate_voice_scores(features)
voiceProfile(f) ==
    LET e == estimate_gender_age(f)
    IN [gender |-> e[1], gender_conf |-> e[2], age_category |-> e[3],
        age_conf |-> e[4], voice_scores |-> calculate_voice_scores(f)]

Classify(f) ==
    /\ features' = f
    /\ verdict' = <<voiceProfile(f).gender, voiceProfile(f).gender_conf,
                    voiceProfile(f).age_category, voiceProfile(f).age_conf>>
    /\ gender_score' = genderScore(f)
    /\ scores' = voiceProfile(f).voice_scores
    /\ profiles' = Append(profiles, [features |-> f, profile |-> voiceProfile(f)])
    /\ UNCHANGED <<module, audio, combined_pitch>>
    /\ UNCHANGED wavVars
    /\ UNCHANGED appVars
    /\ UNCHANGED serverVars

NextProfiles == Len(profiles) < MaxProfiles /\ \E f \in RepeatVectors : Classify(f)

SpecProfiles == Init /\ [][NextProfiles]_vars

(***************************************************************************)
(* /save_audio of integrated.py, handled by several threads of the one     *)
(* server process.  A request is split where it touches the file system:   *)
(* the write of the WAV file, the analysis that reads it back, the write   *)
(* of the game-state file with the response.                               *)
(***************************************************************************)
MaxStamp == 2

Requests == {1, 2}

\* what librosa delivers for the uploaded bytes; librosa.load raises on the last
UploadedAudio ==
    {[readable |-> TRUE, pitches |-> <<100>>, yin_raises |-> FALSE, yin |-> <<105>>,
      peaks |-> <<500, 1000, 2000>>] @@ QuietMeans,
     [readable |-> TRUE, pitches |-> <<250>>, yin_raises |-> FALSE, yin |-> <<250>>,
      peaks |-> <<700, 1900>>] @@ QuietMeans,
     [readable |-> FALSE]}

\* request bodies: base64 audio that decodes, or a body the handler cannot read
SaveBodies ==
    {[well_formed |-> TRUE, audio |-> a] : a \in UploadedAudio}
    \cup {[well_formed |-> FALSE, audio |-> <<>>]}

\* what the Groq call may end in: an exception of requests.post, a status
\* other than 200, content json.loads rejects, or parsed JSON
GroqOutcomes ==
    {[http |-> "error", json |-> "none", keys |-> {}, number |-> TRUE,
      match_percentage |-> 0],
     [http |-> "status_503", json |-> "none", keys |-> {}, number |-> TRUE,
      match_percentage |-> 0],
     [http |-> "ok", json |-> "unparsable", keys |-> {}, number |-> TRUE,
      match_percentage |-> 0],
     [http |-> "ok", json |-> "object", keys |-> {}, number |-> TRUE,
      match_percentage |-> 0],
     [http |-> "ok", json |-> "object", keys |-> {"celebrity_name"}, number |-> TRUE,
      match_percentage |-> 0],
     [http |-> "ok", json |-> "object",
      keys |-> {"celebrity_name", "match_percentage"}, number |-> TRUE,
      match_percentage |-> 92],
     [http |-> "ok", json |-> "array", keys |-> {}, number |-> TRUE,
      match_percentage |-> 0]}

None == [json |-> "None", keys |-> {}, number |-> TRUE, match_percentage |-> 0]

\* the value returned: None from the except clause and for a status other
\* than 200, else whatever json.loads made of the content
get_celebrity_match(outcome) ==
    IF outcome.http # "ok" \/ outcome.json = "unparsable" THEN None
    ELSE [json |-> outcome.json, keys |-> outcome.keys, number |-> outcome.number,
          match_percentage |-> outcome.match_percentage]

\* Python truth of the value: None and {} are false
truthy(llm_result) ==
    \/ llm_result.json = "array"
    \/ llm_result.json = "object" /\ llm_result.keys # {}

\* llm_result.get(key, default), for the two keys followed here
dictGet(llm_result, key, default) ==
    IF key \notin llm_result.keys THEN default
    ELSE IF key = "match_percentage" THEN llm_result.match_percentage
    ELSE "named"

\* the dict built when the match came back (description, fun_fact and
\* standout_quality, copied the same way, left out)
fullAnalysis(llm_result, f, p) ==
    [celebrity_name |-> dictGet(llm_result, "celebrity_name", "Unknown"),
     match_percentage |-> dictGet(llm_result, "match_percentage", 85),
     gender |-> p.gender,
     gender_confidence |-> round1(p.gender_conf),
     age_category |-> p.age_category,
     voice_scores |-> p.voice_scores,
     pitch_mean |-> round1(f.pitch_mean),
     pitch_range |-> round1(f.pitch_range)]

placeholderAnalysis(p) ==
    [celebrity_name |-> "Analyzing...", match_percentage |-> 0,
     description |-> "Voice analysis in progress",
     gender |-> p.gender, voice_scores |-> p.voice_scores]

\* an analysis whose exceptions leave the handler's inner try
tryAnalysis_m(key, file, outcome) ==
    IF ~key THEN [raised |-> FALSE, voice_analysis |-> <<>>]
    ELSE IF ~file.readable THEN [raised |-> TRUE, voice_analysis |-> <<>>]
    ELSE LET f == extract_audio_features("integrated", file)
             p == voiceProfile(f)
             llm_result == get_celebrity_match(outcome)
         IN IF ~truthy(llm_result)
            THEN [raised |-> FALSE, voice_analysis |-> placeholderAnalysis(p)]
            ELSE IF llm_result.json # "object"
            THEN [raised |-> TRUE, voice_analysis |-> <<>>]
            ELSE [raised |-> FALSE,
                  voice_analysis |-> fullAnalysis(llm_result, f, p)]

\* voice_analysis = None; if GROQ_API_KEY: try: ... except Exception:
\* voice_analysis = None.  librosa raises on an unreadable file and
\* llm_result.get raises on a value that is no dict; <<>> is None and raised
\* tells whether an exception left the try
tryAnalysis(key, file, outcome) ==
    IF ~key THEN [raised |-> FALSE, voice_analysis |-> <<>>]
    ELSE IF ~file.readable THEN [raised |-> FALSE, voice_analysis |-> <<>>]
    ELSE LET f == extract_audio_features("integrated", file)
             p == voiceProfile(f)
             llm_result == get_celebrity_match(outcome)
         IN IF ~truthy(llm_result)
            THEN [raised |-> FALSE, voice_analysis |-> placeholderAnalysis(p)]
            ELSE IF llm_result.json # "object"
            THEN [raised |-> FALSE, voice_analysis |-> <<>>]
            ELSE [raised |-> FALSE,
                  voice_analysis |-> fullAnalysis(llm_result, f, p)]

\* the outer except: jsonify({'success': False, ...}), 500
failed(q) ==
    [q EXCEPT !.pc = "done",
              !.response = [success |-> FALSE, status |-> 500,
                            voice_analysis |-> <<>>]]

InitSave ==
    /\ InitApp
    /\ InitNoWav
    /\ InitNoVoice
    /\ InitNoQuest
    /\ GROQ_API_KEY \in BOOLEAN
    /\ now = 1
    /\ audioDir = <<>>
    /\ gameDir = <<>>
    /\ requests = [r \in Requests |->
                     [pc |-> "idle", timestamp |-> 0, body |-> <<>>, heard |-> <<>>,
                      outcome |-> <<>>, voice_analysis |-> <<>>, response |-> <<>>]]

\* datetime.now() moves on by a second
tick ==
    /\ now < MaxStamp
    /\ now' = now + 1
    /\ UNCHANGED <<GROQ_API_KEY, audioDir, gameDir, requests>>
    /\ UNCHANGED questVars
    /\ UNCHANGED wavVars
    /\ UNCHANGED appVars
    /\ UNCHANGED voiceVars

\* request.json ... f.write(audio_bytes)
save_audio_write(r, body) ==
    /\ requests[r].pc = "idle"
    /\ IF ~body.well_formed
       THEN /\ requests' = [requests EXCEPT ![r] = failed(@)]
            /\ UNCHANGED audioDir
       ELSE /\ requests' = [requests EXCEPT ![r] =
                               [@ EXCEPT !.pc = "saved", !.timestamp = now,
                                         !.body = body.audio]]
            /\ audioDir' = (now :> body.audio) @@ audioDir
    /\ UNCHANGED <<GROQ_API_KEY, now, gameDir>>
    /\ UNCHANGED questVars
    /\ UNCHANGED wavVars
    /\ UNCHANGED appVars
    /\ UNCHANGED voiceVars

\* the analysis of the file at filepath, as it is on disk now
save_audio_analyse(r, outcome) ==
    /\ requests[r].pc = "saved"
    /\ LET file == audioDir[requests[r].timestamp]
           result == tryAnalysis(GROQ_API_KEY, file, outcome)
       IN requests' = [requests EXCEPT ![r] =
                          IF result.raised THEN failed(@)
                          ELSE [@ EXCEPT !.pc = "analysed", !.heard = file,
                                         !.outcome = outcome,
                                         !.voice_analysis = result.voice_analysis]]
    /\ UNCHANGED <<GROQ_API_KEY, now, audioDir, gameDir>>
    /\ UNCHANGED questVars
    /\ UNCHANGED wavVars
    /\ UNCHANGED appVars
    /\ UNCHANGED voiceVars

\* json.dump to game_state_{timestamp}.json, then the response
save_audio_respond(r) ==
    /\ requests[r].pc = "analysed"
    /\ gameDir' = (requests[r].timestamp :>
                      [timestamp |-> requests[r].timestamp,
                       audio_file |-> requests[r].timestamp,
                       voice_analysis |-> requests[r].voice_analysis]) @@ gameDir
    /\ requests' = [requests EXCEPT ![r] =
                       [@ EXCEPT !.pc = "done",
                                 !.response = [success |-> TRUE, status |-> 200,
                                               filename |-> requests[r].timestamp,
                                               voice_analysis |->
                                                   requests[r].voice_analysis]]]
    /\ UNCHANGED <<GROQ_API_KEY, now, audioDir>>
    /\ UNCHANGED questVars
    /\ UNCHANGED wavVars
    /\ UNCHANGED appVars
    /\ UNCHANGED voiceVars

NextSave ==
    \/ tick
    \/ \E r \in Requests, body \in SaveBodies : save_audio_write(r, body)
    \/ \E r \in Requests, outcome \in GroqOutcomes : save_audio_analyse(r, outcome)
    \/ \E r \in Requests : save_audio_respond(r)

SpecSave == InitSave /\ [][NextSave]_vars

(***************************************************************************)
(* /analyze of speech_classification.py: the session cookie, the           *)
(* achievements and the experience points.  The session is the dict of the *)
(* keys the cookie holds; a 500 response still carries the cookie as the   *)
(* handler left it.                                                        *)
(***************************************************************************)
MaxCalls == 3
MaxMasterCalls == 6

ACHIEVEMENTS ==
    <<[name |-> "First Words", xp |-> 50], [name |-> "Chatterbox", xp |-> 100],
      [name |-> "Speaker Pro", xp |-> 250], [name |-> "Voice Master", xp |-> 500],
      [name |-> "Quality First", xp |-> 150], [name |-> "Perfectionist", xp |-> 300],
      [name |-> "Deep Voice", xp |-> 100], [name |-> "Crystal Clear", xp |-> 100],
      [name |-> "Celebrity Match", xp |-> 200], [name |-> "Streak Master", xp |-> 250],
      [name |-> "Gender Expert", xp |-> 150], [name |-> "Smooth Operator", xp |-> 100],
      [name |-> "Power Voice", xp |-> 100], [name |-> "Rich Tone", xp |-> 100],
      [name |-> "Speech Master", xp |-> 1000]>>

AchievementNames == {ACHIEVEMENTS[i].name : i \in DOMAIN ACHIEVEMENTS}

\* a recording every score of which is 8 or more and whose gender is
\* decided with confidence 95, and a plain one
IdealVoice ==
    [pitch_mean |-> RInt(100), pitch_median |-> RInt(100), pitch_std |-> RInt(5),
     pitch_range |-> RInt(100), formant_f1_mean |-> RInt(450),
     formant_f2_mean |-> RInt(1200)]
    @@ otherFeatures([QuietMeans EXCEPT !.spectral_centroid_mean = RInt(1200),
                                        !.zcr_mean = Rat(1, 10),
                                        !.rms_mean = Rat(15, 100),
                                        !.harmonic = 9000, !.percussive = 0])

PlainVoice ==
    [pitch_mean |-> RInt(180), pitch_median |-> RInt(165), pitch_std |-> RInt(30),
     pitch_range |-> RInt(100), formant_f1_mean |-> RInt(570),
     formant_f2_mean |-> RInt(1500)]
    @@ otherFeatures(QuietMeans)

QuestVoices == {IdealVoice, PlainVoice}

\* features['duration'], in whole seconds
Durations == {40, 400}

\* a match of m percent
Match(m) ==
    [http |-> "ok", json |-> "object",
     keys |-> {"celebrity_name", "match_percentage"}, number |-> TRUE,
     match_percentage |-> m]

\* the Groq outcomes of /analyze: those above and a match_percentage that is
\* no number, such as "85%"
QuestOutcomes ==
    {o \in GroqOutcomes : o.http = "error" \/ o.json = "array"}
    \cup {Match(85), Match(95)}
    \cup {[http |-> "ok", json |-> "object",
           keys |-> {"celebrity_name", "match_percentage"}, number |-> FALSE,
           match_percentage |-> 0]}

\* session.get(key, default) and session[key] = value
sessionGet(s, key, default) == IF key \in DOMAIN s THEN s[key] ELSE default

sessionSet(s, key, value) == (key :> value) @@ s

init_session(s) ==
    IF "level" \in DOMAIN s THEN s
    ELSE [level |-> 1, total_xp |-> 0, xp_for_next_level |-> 100, streak |-> 0,
          words_spoken |-> 0, unlocked_achievements |-> <<>>,
          high_quality_count |-> 0, recordings_count |-> 0]

\* int(x * 1.5)
grow(x) == (3 * x) \div 2

\* the element of a one-element set
Only(S) == CHOOSE x \in S : TRUE

\* the while loop of add_xp; session['xp_for_next_level'] raises KeyError
\* on a session that does not hold the key
RECURSIVE levelUp(_)
levelUp(s) ==
    IF s["total_xp"] >= sessionGet(s, "xp_for_next_level", 100)
    THEN IF "xp_for_next_level" \notin DOMAIN s
         THEN [session |-> s, raised |-> TRUE]
         ELSE Only({levelUp(t) :
                      t \in {sessionSet(
                                sessionSet(
                                    sessionSet(s, "total_xp",
                                               s["total_xp"] - s["xp_for_next_level"]),
                                    "level", sessionGet(s, "level", 1) + 1),
                                "xp_for_next_level", grow(s["xp_for_next_level"]))}})
    ELSE [session |-> s, raised |-> FALSE]

\* an add_xp without the loop
add_xp_m(s, amount) ==
    [session |-> sessionSet(s, "total_xp", sessionGet(s, "total_xp", 0) + amount),
     raised |-> FALSE]

add_xp(s, amount) ==
    Only({levelUp(t) :
            t \in {sessionSet(s, "total_xp", sessionGet(s, "total_xp", 0) + amount)}})

atLeast(x, n) == RLe(RInt(n), x)

\* new_achievements.append(name); add_xp(amount)
awardOne(st, a) ==
    Only({[session |-> r.session,
           new_achievements |-> Append(st.new_achievements, a.name),
           raised |-> r.raised,
           xp_log |-> Append(st.xp_log,
                             [name |-> a.name, amount |-> a.xp,
                              before |-> st.session, after |-> r.session,
                              raised |-> r.raised])] :
            r \in {add_xp(st.session, a.xp)}})

\* the awards from the i-th on, in turn, until an add_xp call raises
RECURSIVE award(_, _, _)
award(st, awards, i) ==
    IF i > Len(awards) \/ st.raised THEN st
    ELSE Only({award(next, awards, i + 1) : next \in {awardOne(st, awards[i])}})

passed(checks) == SelectSeq(checks, LAMBDA c : c.cond)

\* for achievement in new_achievements: if achievement not in unlocked:
\* unlocked.append(achievement), from the i-th on
RECURSIVE appendNew(_, _, _)
appendNew(unlocked, new, i) ==
    IF i > Len(new) THEN unlocked
    ELSE Only({appendNew(u, new, i + 1) :
                 u \in {IF new[i] \in SeqRange(unlocked) THEN unlocked
                        ELSE Append(unlocked, new[i])}})

\* "Update session" and "Check Speech Master", after the checks left st
updateSession(unlocked, st) ==
    Only({IF Len(all) = 14 /\ "Speech Master" \notin SeqRange(all)
          THEN awardOne([st EXCEPT !.session =
                             sessionSet(@, "unlocked_achievements",
                                        Append(all, "Speech Master"))],
                        [name |-> "Speech Master", xp |-> 1000])
          ELSE [st EXCEPT !.session = sessionSet(@, "unlocked_achievements", all)] :
            all \in {appendNew(unlocked, st.new_achievements, 1)}})

\* check_achievements on the session s: the session it leaves, the list
\* it built, whether an exception left it, and its add_xp calls
check_achievements(s, voice_scores, gender_conf, llm_result, audio_quality) ==
    LET unlocked == sessionGet(s, "unlocked_achievements", <<>>)
        open(name) == name \notin SeqRange(unlocked)
        words == sessionGet(s, "words_spoken", 0)
        high == atLeast(audio_quality, 8)
        first ==
            passed(<<[name |-> "First Words", xp |-> 50, cond |-> open("First Words")],
                     [name |-> "Chatterbox", xp |-> 100,
                      cond |-> words >= 100 /\ open("Chatterbox")],
                     [name |-> "Speaker Pro", xp |-> 250,
                      cond |-> words >= 500 /\ open("Speaker Pro")],
                     [name |-> "Voice Master", xp |-> 500,
                      cond |-> words >= 1000 /\ open("Voice Master")],
                     [name |-> "Quality First", xp |-> 150,
                      cond |-> high /\ open("Quality First")],
                     [name |-> "Perfectionist", xp |-> 300,
                      cond |-> /\ high
                               /\ sessionGet(s, "high_quality_count", 0) >= 5
                               /\ open("Perfectionist")],
                     [name |-> "Deep Voice", xp |-> 100,
                      cond |-> atLeast(voice_scores.bass, 8) /\ open("Deep Voice")],
                     [name |-> "Crystal Clear", xp |-> 100,
                      cond |-> atLeast(voice_scores.clarity, 8)
                               /\ open("Crystal Clear")],
                     [name |-> "Smooth Operator", xp |-> 100,
                      cond |-> atLeast(voice_scores.smoothness, 8)
                               /\ open("Smooth Operator")],
                     [name |-> "Power Voice", xp |-> 100,
                      cond |-> atLeast(voice_scores.power, 8) /\ open("Power Voice")],
                     [name |-> "Rich Tone", xp |-> 100,
                      cond |-> atLeast(voice_scores.richness, 8)
                               /\ open("Rich Tone")]>>)
        \* llm_result.get('match_percentage', 0) >= 90 raises TypeError when
        \* the value is no number
        compared == truthy(llm_result) /\ "match_percentage" \in llm_result.keys
        second ==
            passed(<<[name |-> "Celebrity Match", xp |-> 200,
                      cond |-> /\ compared
                               /\ llm_result.number
                               /\ llm_result.match_percentage >= 90
                               /\ open("Celebrity Match")],
                     [name |-> "Gender Expert", xp |-> 150,
                      cond |-> atLeast(gender_conf, 95) /\ open("Gender Expert")]>>)
        start == [session |-> s, new_achievements |-> <<>>, raised |-> FALSE,
                  xp_log |-> <<>>]
    IN Only({IF st1.raised THEN st1
             ELSE IF compared /\ ~llm_result.number THEN [st1 EXCEPT !.raised = TRUE]
             ELSE Only({IF st2.raised THEN st2 ELSE updateSession(unlocked, st2) :
                          st2 \in {award(st1, second, 1)}}) :
               st1 \in {award(start, first, 1)}})

\* round(quality_score, 1)
audioQuality(voice_scores) ==
    round1(RMul(RAdd(RAdd(voice_scores.clarity, voice_scores.smoothness),
                     RAdd(voice_scores.power, voice_scores.richness)), Rat(1, 4)))

\* int(features['duration'] * 2.5)
estimatedWords(duration) == (5 * duration) \div 2

countAwards(awards, xp_log) ==
    [a \in AchievementNames |->
        awards[a] + Cardinality({i \in DOMAIN xp_log : xp_log[i].name = a})]

InitQuest ==
    /\ InitApp
    /\ InitNoWav
    /\ InitNoVoice
    /\ InitNoSave
    /\ flaskSession = <<>>
    /\ lastCall = <<>>
    /\ xpAwards = [a \in AchievementNames |-> 0]

\* GET /: init_session() on a cookie without 'level'
index ==
    /\ "level" \notin DOMAIN flaskSession
    /\ flaskSession' = init_session(flaskSession)
    /\ lastCall' = <<>>
    /\ xpAwards' = [a \in AchievementNames |-> 0]
    /\ UNCHANGED saveVars
    /\ UNCHANGED wavVars
    /\ UNCHANGED appVars
    /\ UNCHANGED voiceVars

\* words_spoken, recordings_count, high_quality_count
updateCounts(s, estimated_words, audio_quality) ==
    Only({IF atLeast(audio_quality, 8)
          THEN sessionSet(s2, "high_quality_count",
                          sessionGet(s2, "high_quality_count", 0) + 1)
          ELSE s2 :
            s2 \in {sessionSet(s1, "recordings_count",
                               sessionGet(s1, "recordings_count", 0) + 1) :
                      s1 \in {sessionSet(s, "words_spoken",
                                         sessionGet(s, "words_spoken", 0)
                                             + estimated_words)}}})

\* POST /analyze with a file whose features are f and whose duration is
\* `duration`, the Groq call ending in `outcome`
analyze(f, duration, outcome) ==
    /\ GROQ_API_KEY
    /\ \E p \in {voiceProfile(f)}, llm_result \in {get_celebrity_match(outcome)},
          unlocked \in {sessionGet(flaskSession, "unlocked_achievements", <<>>)} :
          IF truthy(llm_result) /\ llm_result.json # "object"
          THEN \* llm_result.get raises before the session is touched
               /\ lastCall' = [status |-> 500, unlocked_before |-> unlocked,
                               new_achievements |-> <<>>, xp_log |-> <<>>]
               /\ UNCHANGED <<flaskSession, xpAwards>>
          ELSE \E audio_quality \in {audioQuality(p.voice_scores)} :
               \E s \in {updateCounts(flaskSession, estimatedWords(duration),
                                      audio_quality)} :
               \E r \in {check_achievements(s, p.voice_scores, p.gender_conf,
                                            llm_result, audio_quality)} :
                   /\ flaskSession' = r.session
                   /\ lastCall' = [status |-> IF r.raised THEN 500 ELSE 200,
                                   unlocked_before |-> unlocked,
                                   new_achievements |-> r.new_achievements,
                                   xp_log |-> r.xp_log]
                   /\ xpAwards' = countAwards(xpAwards, r.xp_log)
    /\ UNCHANGED saveVars
    /\ UNCHANGED wavVars
    /\ UNCHANGED appVars
    /\ UNCHANGED voiceVars

\* the calls that got as far as the session update
calls == sessionGet(flaskSession, "recordings_count", 0)

NextQuest ==
    \/ index
    \/ /\ calls < MaxCalls
       /\ \E f \in QuestVoices, duration \in Durations, outcome \in QuestOutcomes :
              analyze(f, duration, outcome)

SpecQuest == InitQuest /\ [][NextQuest]_vars

(***************************************************************************)
(* The same calls, and a player who opens the page and goes on sending     *)
(* the best recording there is: every score 8 or more, 1000 words, a match *)
(* of 95 percent.                                                          *)
(***************************************************************************)
bestCall ==
    /\ sessionGet(flaskSession, "high_quality_count", 0) < MaxMasterCalls
    /\ analyze(IdealVoice, 400, Match(95))

NextMaster == NextQuest \/ bestCall

SpecMaster ==
    InitQuest /\ [][NextMaster]_vars /\ WF_vars(index) /\ WF_vars(bestCall)

(***************************************************************************)
(* Properties.                                                             *)
(***************************************************************************)

\* C1: decoding the bytes createWavFile returned recovers the channel count,
\* the sample rate, bit depth 16 and exactly the supplied sample sequence,
\* for every sample array of length 0..MaxSamples.
WavRoundTrip ==
    wavDecoded # <<>> =>
        /\ wavDecoded.numChannels = wavIn.channels
        /\ wavDecoded.sampleRate = wavIn.sampleRate
        /\ wavDecoded.bitsPerSample = 16
        /\ wavDecoded.samples = wavIn.pcmData

WavRoundTripWitness ==
    /\ wavDecoded # <<>>
    /\ wavIn.pcmData = <<-32768, 255, -2>>
    /\ wavIn.channels = 2
    /\ wavDecoded.samples = wavIn.pcmData

\* C2: createWavFile on n samples, rate r, c channels returns 44 + 2n bytes
\* with ChunkSize = 36 + 2n, Subchunk1Size = 16, AudioFormat = 1,
\* NumChannels = c, SampleRate = r, ByteRate = 2rc, BlockAlign = 2c,
\* BitsPerSample = 16, Subchunk2Size = 2n (little-endian); the mono buffer
\* [0, -32768] at 8000 Hz gives 40, 16000, 2 and 4.
WavHeaderLayout ==
    wavBytes # <<>> =>
        LET n == Len(wavIn.pcmData)
            r == wavIn.sampleRate
            c == wavIn.channels
        IN  /\ Len(wavBytes) = 44 + 2 * n
            /\ SubSeq(wavBytes, 1, 4) = <<82, 73, 70, 70>>
            /\ getUint32(wavBytes, 4) = 36 + 2 * n
            /\ SubSeq(wavBytes, 9, 16) = <<87, 65, 86, 69, 102, 109, 116, 32>>
            /\ getUint32(wavBytes, 16) = 16
            /\ getUint16(wavBytes, 20) = 1
            /\ getUint16(wavBytes, 22) = c
            /\ getUint32(wavBytes, 24) = r
            /\ getUint32(wavBytes, 28) = r * c * 2
            /\ getUint16(wavBytes, 32) = c * 2
            /\ getUint16(wavBytes, 34) = 16
            /\ SubSeq(wavBytes, 37, 40) = <<100, 97, 116, 97>>
            /\ getUint32(wavBytes, 40) = 2 * n
            /\ (wavIn.pcmData = <<0, -32768>> /\ r = 8000 /\ c = 1 =>
                    /\ SubSeq(wavBytes, 5, 8) = <<40, 0, 0, 0>>
                    /\ SubSeq(wavBytes, 29, 32) = <<128, 62, 0, 0>>
                    /\ SubSeq(wavBytes, 33, 34) = <<2, 0>>
                    /\ SubSeq(wavBytes, 41, 44) = <<4, 0, 0, 0>>)

WavHeaderLayoutWitness ==
    /\ wavBytes # <<>>
    /\ wavIn = [pcmData |-> <<0, -32768>>, sampleRate |-> 8000, channels |-> 1]
    /\ getUint32(wavBytes, 28) = 16000

\* C3: every stored sample is the input clamped to [-1, 1], scaled by 32768
\* when negative and by 32767 otherwise, as a signed 16-bit integer: it lies
\* in [-32768, 32767], s <= -1 gives -32768, s >= 1 gives 32767, 0 gives 0,
\* and the mapping is non-decreasing in s.
PcmConversion ==
    \A k \in DOMAIN audioChunks :
        /\ Len(audioChunks[k]) = Len(accepted[k])
        /\ \A i \in DOMAIN audioChunks[k] :
            LET s   == accepted[k][i]
                out == audioChunks[k][i]
            IN  /\ out \in -32768..32767
                /\ (s <= -SampleDen => out = -32768)
                /\ (s >= SampleDen => out = 32767)
                /\ (s = 0 => out = 0)
                /\ (-SampleDen <= s /\ s < 0 =>
                        /\ s * 32768 <= out * SampleDen
                        /\ out * SampleDen < s * 32768 + SampleDen)
                /\ (0 <= s /\ s <= SampleDen =>
                        /\ out * SampleDen <= s * 32767
                        /\ s * 32767 < out * SampleDen + SampleDen)
                /\ \A j \in DOMAIN audioChunks[k] :
                        accepted[k][j] <= s => audioChunks[k][j] <= out

PcmConversionWitness ==
    /\ Len(audioChunks) = 1
    /\ accepted[1] = <<SampleDen + 1, -(SampleDen + 1)>>
    /\ audioChunks[1] = <<32767, -32768>>

\* C6: the score a monitor tick stores in currentQuality lies in [1, 10],
\* with volumeScore in [0, 40], freqScore in [0, 30], rangeScore in [0, 30]
\* and their sum in [0, 100]; an all-zero snapshot yields exactly 1.
QualityBounds ==
    dataArray # <<>> =>
        LET den == qDen(dataArray)
        IN  /\ currentQuality.den > 0
            /\ currentQuality.num >= currentQuality.den
            /\ currentQuality.num <= 10 * currentQuality.den
            /\ volumeScore(dataArray) \in 0..(40 * den)
            /\ freqScore(dataArray) \in 0..(30 * den)
            /\ rangeScore(dataArray) \in 0..(30 * den)
            /\ rawScore(dataArray) \in 0..(100 * den)
            /\ ((\A i \in DOMAIN dataArray : dataArray[i] = 0) =>
                    currentQuality.num = currentQuality.den)

QualityBoundsWitness ==
    /\ dataArray = <<0, 0>>
    /\ currentQuality.num = currentQuality.den
    /\ lastTick.effect

\* C7: for two snapshots with the same number of bins, the same count of bins
\* above 10 and the same max - min, the one with the larger mean never gets
\* the lower score.
QualityMonotoneInMean ==
    dataArray # <<>> =>
        \A other \in WideSnapshots :
            ( /\ Len(other) = Len(dataArray)
              /\ Cardinality({i \in DOMAIN other : other[i] > 10})
                    = Cardinality({i \in DOMAIN dataArray : dataArray[i] > 10})
              /\ MaxOf(SeqRange(other)) - MinOf(SeqRange(other))
                    = MaxOf(SeqRange(dataArray)) - MinOf(SeqRange(dataArray)) ) =>
                /\ (SumSeq(other) >= SumSeq(dataArray) =>
                        qualityOf(other).num >= currentQuality.num)
                /\ (SumSeq(other) <= SumSeq(dataArray) =>
                        qualityOf(other).num <= currentQuality.num)

QualityMonotoneInMeanWitness ==
    /\ dataArray = <<0, 245>>
    /\ qualityOf(<<10, 255>>).num > currentQuality.num

\* C8: updateQualityDisplay maps the score to exactly one tier: >= 8 is
\* excellent / model1, [5, 8) good / model2, [3, 5) moderate / model3,
\* < 3 poor / model3; 8, 5 and 3 belong to the upper tier.
QualityTiers ==
    dataArray # <<>> =>
        LET n == currentQuality.num
            d == currentQuality.den
        IN  /\ (n >= 8 * d =>
                    display = [desc |-> "Excellent", recommendedModel |-> "model1"])
            /\ (5 * d <= n /\ n < 8 * d =>
                    display = [desc |-> "Good", recommendedModel |-> "model2"])
            /\ (3 * d <= n /\ n < 5 * d =>
                    display = [desc |-> "Moderate", recommendedModel |-> "model3"])
            /\ (n < 3 * d =>
                    display = [desc |-> "Poor", recommendedModel |-> "model3"])

QualityTiersWitness ==
    /\ dataArray = <<11, 142, 231, 231>>
    /\ currentQuality.num = 8 * currentQuality.den
    /\ display.desc = "Excellent"

RECURSIVE Concat(_)
Concat(frames) == IF frames = <<>> THEN <<>> ELSE Head(frames) \o Concat(Tail(frames))

NoStaleTick == lastTick.effect => lastTick.chain = lastTick.session

\* C10: at most one monitorAudioQuality timer is pending at any time, and it
\* belongs to the latest session.
SingleMonitorChain ==
    /\ Len(timers) <= 1
    /\ \A i \in DOMAIN timers : timers[i] = session

\* what a feature extraction saw: no positive observation in either pitch
\* pass and no spectral peak inside a formant band
SilentAudio ==
    /\ audio # <<>>
    /\ \A i \in DOMAIN audio.pitches : audio.pitches[i] <= 0
    /\ (audio.yin_raises \/ \A i \in DOMAIN audio.yin : audio.yin[i] <= 0)
    /\ \A i \in DOMAIN audio.peaks :
          /\ ~(200 < audio.peaks[i] /\ audio.peaks[i] < 1200)
          /\ ~(800 < audio.peaks[i] /\ audio.peaks[i] < 3500)

\* C11: feature extraction on an all-silence buffer returns pitch_mean =
\* pitch_median = 150, pitch_std = 30, pitch_range = 100,
\* formant_f1_mean = 500 and formant_f2_mean = 1500.
SilenceDefaults ==
    (SilentAudio /\ features # <<>>) =>
        /\ REq(features.pitch_mean, RInt(150))
        /\ REq(features.pitch_median, RInt(150))
        /\ REq(features.pitch_std, RInt(30))
        /\ REq(features.pitch_range, RInt(100))
        /\ REq(features.formant_f1_mean, RInt(500))
        /\ REq(features.formant_f2_mean, RInt(1500))

PitchAndFormantKeys ==
    {"pitch_mean", "pitch_median", "pitch_std", "pitch_range",
     "formant_f1_mean", "formant_f2_mean"}

\* C12: whatever the two pitch passes yield (no, one or many positive
\* observations, or the second pass raising) and whatever the spectral peaks,
\* the dictionary extract_audio_features returns has the four pitch keys and
\* the two formant keys, each with a finite value.
FeatureKeysPresent ==
    features # <<>> =>
        /\ PitchAndFormantKeys \subseteq DOMAIN features
        /\ \A k \in PitchAndFormantKeys : features[k].den > 0

FeatureKeysPresentWitness ==
    /\ audio # <<>>
    /\ features # <<>>
    /\ audio.yin_raises
    /\ \A i \in DOMAIN audio.pitches : audio.pitches[i] = 0
    /\ audio.peaks = <<>>
    /\ PitchAndFormantKeys \subseteq DOMAIN features

RECURSIVE SumAt(_, _)
SumAt(s, I) ==
    IF I = {} THEN 0
    ELSE LET i == CHOOSE j \in I : TRUE IN s[i] + SumAt(s, I \ {i})

RECURSIVE SumSqAt(_, _)
SumSqAt(s, I) ==
    IF I = {} THEN 0
    ELSE LET i == CHOOSE j \in I : TRUE IN s[i] * s[i] + SumSqAt(s, I \ {i})

\* the positions of the merged observations inside the fence, bounds included
Retained ==
    LET q1 == np_percentile(combined_pitch, 25)
        q3 == np_percentile(combined_pitch, 75)
        lower == RSub(q1, RMul(Rat(3, 2), RSub(q3, q1)))
        upper == RAdd(q3, RMul(Rat(3, 2), RSub(q3, q1)))
    IN {i \in DOMAIN combined_pitch :
            /\ RLe(lower, RInt(combined_pitch[i]))
            /\ RLe(RInt(combined_pitch[i]), upper)}

\* C13: the pitch statistics are those of exactly the merged observations p
\* with Q1 - 1.5 IQR <= p <= Q3 + 1.5 IQR: pitch_mean their mean, pitch_median
\* their median, pitch_std their standard deviation (to the precision kept)
\* and pitch_range their largest minus their smallest.
PitchStatsOverFence ==
    (audio # <<>> /\ features # <<>> /\ Retained # {}) =>
        LET x == combined_pitch
            n == Cardinality(Retained)
            m == features.pitch_median
            below == {i \in Retained : RLt(RInt(x[i]), m)}
            above == {i \in Retained : RLt(m, RInt(x[i]))}
            v == n * SumSqAt(x, Retained) - SumAt(x, Retained) * SumAt(x, Retained)
            r == features.pitch_std.num
        IN /\ REq(features.pitch_mean, Rat(SumAt(x, Retained), n))
           /\ 2 * Cardinality(below) <= n
           /\ 2 * Cardinality(above) <= n
           /\ \E lo \in Retained \ above : \E hi \in Retained \ below :
                 /\ \A i \in Retained \ above : x[i] <= x[lo]
                 /\ \A i \in Retained \ below : x[hi] <= x[i]
                 /\ REq(RAdd(m, m), RInt(x[lo] + x[hi]))
           /\ features.pitch_std.den = StdScale * n
           /\ r >= 0
           /\ r * r <= StdScale * StdScale * v
           /\ StdScale * StdScale * v < (r + 1) * (r + 1)
           /\ \E lo \in Retained : \E hi \in Retained :
                 /\ \A i \in Retained : x[lo] <= x[i] /\ x[i] <= x[hi]
                 /\ REq(features.pitch_range, RInt(x[hi] - x[lo]))

\* an observation was discarded and the statistics are those of the rest
PitchStatsOverFenceWitness ==
    /\ audio # <<>>
    /\ features # <<>>
    /\ Retained # {}
    /\ Retained # DOMAIN combined_pitch
    /\ Cardinality(Retained) >= 3
    /\ REq(features.pitch_range, RInt(0))

\* C14: formant_f1_mean is the mean of the spectral peaks strictly between 200
\* and 1200 Hz, formant_f2_mean the mean of those strictly between 800 and
\* 3500 Hz (a peak between 800 and 1200 Hz counts in both); a band without a
\* peak gets its default, 500 or 1500, whatever the other band holds.
FormantBands ==
    (audio # <<>> /\ features # <<>>) =>
        LET f == audio.peaks
            band1 == {i \in DOMAIN f : 200 < f[i] /\ f[i] < 1200}
            band2 == {i \in DOMAIN f : 800 < f[i] /\ f[i] < 3500}
        IN /\ REq(features.formant_f1_mean,
                  IF band1 = {} THEN RInt(500)
                  ELSE Rat(SumAt(f, band1), Cardinality(band1)))
           /\ REq(features.formant_f2_mean,
                  IF band2 = {} THEN RInt(1500)
                  ELSE Rat(SumAt(f, band2), Cardinality(band2)))

\* one peak in both bands, one in the second only
FormantBandsWitness ==
    /\ audio # <<>>
    /\ features # <<>>
    /\ \E i \in DOMAIN audio.peaks : 800 < audio.peaks[i] /\ audio.peaks[i] < 1200
    /\ \E i \in DOMAIN audio.peaks : 1200 <= audio.peaks[i] /\ audio.peaks[i] < 3500
    /\ RLt(features.formant_f1_mean, features.formant_f2_mean)

\* C15: the gender score is the sum of the pitch-median cue (<140: -4,
\* <155: -2, <175: 0, <200: +2, otherwise +4), the formant cue (F1<520 and
\* F2<1400: -3; F1>620 and F2>1700: +3; otherwise 0) and the centroid cue
\* (<1500: -1.5; >2500: +1.5; otherwise 0); pitch_median 100, F1 450, F2 1200,
\* centroid 1200 gives -8.5, male, confidence 95.
GenderScoreCues ==
    verdict # <<>> =>
        LET p == features.pitch_median
            f1 == features.formant_f1_mean
            f2 == features.formant_f2_mean
            c == features.spectral_centroid_mean
            lt(a, k) == a.num < k * a.den
            gt(a, k) == a.num > k * a.den
            pitch2 == IF lt(p, 140) THEN -8 ELSE IF lt(p, 155) THEN -4
                      ELSE IF lt(p, 175) THEN 0 ELSE IF lt(p, 200) THEN 4 ELSE 8
            formant2 == IF lt(f1, 520) /\ lt(f2, 1400) THEN -6
                        ELSE IF gt(f1, 620) /\ gt(f2, 1700) THEN 6 ELSE 0
            centroid2 == IF lt(c, 1500) THEN -3 ELSE IF gt(c, 2500) THEN 3 ELSE 0
        IN /\ REq(gender_score, Rat(pitch2 + formant2 + centroid2, 2))
           /\ (REq(p, RInt(100)) /\ REq(f1, RInt(450)) /\ REq(f2, RInt(1200))
               /\ REq(c, RInt(1200)))
              => /\ REq(gender_score, Rat(-17, 2))
                 /\ verdict[1] = "male"
                 /\ REq(verdict[2], RInt(95))

GenderScoreCuesWitness ==
    /\ verdict # <<>>
    /\ REq(features.pitch_median, RInt(100))
    /\ REq(features.formant_f1_mean, RInt(450))
    /\ REq(features.formant_f2_mean, RInt(1200))
    /\ REq(features.spectral_centroid_mean, RInt(1200))
    /\ verdict[1] = "male"

\* C16: the label is male or female: male below -1.5, female above 1.5, and
\* for every score from -1.5 to 1.5, both included, male when
\* pitch_median < 165 and female otherwise; pitch_median 165 with neutral
\* formants and centroid gives female with confidence 55.
GenderLabel ==
    verdict # <<>> =>
        LET p == features.pitch_median
            s2 == 2 * gender_score.num
            d == gender_score.den
        IN /\ verdict[1] \in {"male", "female"}
           /\ s2 < -3 * d => verdict[1] = "male"
           /\ s2 > 3 * d => verdict[1] = "female"
           /\ (-3 * d <= s2 /\ s2 <= 3 * d) =>
                 (verdict[1] = "male" <=> p.num < 165 * p.den)
           /\ (REq(p, RInt(165)) /\ REq(gender_score, RInt(0))) =>
                 (verdict[1] = "female" /\ REq(verdict[2], RInt(55)))

\* the tie-break taken at pitch_median 165 with a score of 0
GenderLabelWitness ==
    /\ verdict # <<>>
    /\ REq(features.pitch_median, RInt(165))
    /\ REq(gender_score, RInt(0))
    /\ verdict[1] = "female"

\* C17: the gender confidence lies in [55, 95]: min(95, 60 + 8 |score|) when
\* the score is below -1.5 or above 1.5, and 55 in the tie-break.
GenderConfidence ==
    verdict # <<>> =>
        LET conf == verdict[2]
            a == IF gender_score.num < 0 THEN -gender_score.num ELSE gender_score.num
            d == gender_score.den
            decisive == 2 * a > 3 * d
        IN /\ 55 * conf.den <= conf.num
           /\ conf.num <= 95 * conf.den
           /\ decisive =>
                 IF 60 * d + 8 * a >= 95 * d THEN REq(conf, RInt(95))
                 ELSE REq(conf, Rat(60 * d + 8 * a, d))
           /\ ~decisive => REq(conf, RInt(55))

\* a decisive score whose 60 + 8 |score| is above 95
GenderConfidenceWitness ==
    /\ verdict # <<>>
    /\ RLt(RInt(5), RAbs(gender_score))
    /\ REq(verdict[2], RInt(95))

\* C18: the age bracket is young when neither pitch_std < 15 nor
\* spectral_flatness_mean > 0.35 holds, middle when exactly one holds and
\* senior when both hold; the age confidence is 70.
AgeBracket ==
    verdict # <<>> =>
        LET steady == features.pitch_std.num < 15 * features.pitch_std.den
            flat == 100 * features.spectral_flatness_mean.num
                       > 35 * features.spectral_flatness_mean.den
        IN /\ verdict[3] \in {"young", "middle", "senior"}
           /\ verdict[3] = "young" <=> (~steady /\ ~flat)
           /\ verdict[3] = "middle" <=> (steady /\ ~flat) \/ (~steady /\ flat)
           /\ verdict[3] = "senior" <=> (steady /\ flat)
           /\ REq(verdict[4], RInt(70))

\* pitch_std exactly 15 and flatness exactly 0.35: neither cue, young
AgeBracketWitness ==
    /\ verdict # <<>>
    /\ REq(features.pitch_std, RInt(15))
    /\ REq(features.spectral_flatness_mean, Rat(35, 100))
    /\ verdict[3] = "young"

ScoreNames ==
    {"bass", "treble", "clarity", "smoothness", "power", "warmth", "richness",
     "pitch_variation"}

\* C19: each of the eight scores calculate_voice_scores returns lies in
\* [0, 10], warmth included.
ScoresInRange ==
    scores # <<>> =>
        /\ DOMAIN scores = ScoreNames
        /\ \A k \in ScoreNames :
              /\ scores[k].den > 0
              /\ 0 <= scores[k].num
              /\ scores[k].num <= 10 * scores[k].den

\* both clamps at work: a bass cut to 0 and a treble cut to 10
ScoresInRangeWitness ==
    /\ scores # <<>>
    /\ RLt(RInt(280), features.pitch_mean)
    /\ RLt(RInt(4000), features.spectral_centroid_mean)
    /\ REq(scores.bass, RInt(0))
    /\ REq(scores.treble, RInt(10))
    /\ RLt(RInt(0), scores.warmth)

\* x cut to [0, 10]
Clamped(x) ==
    IF x.num < 0 THEN RInt(0) ELSE IF x.num > 10 * x.den THEN RInt(10) ELSE x

\* t is x to one decimal: a whole number of tenths, at most half a tenth away
OneDecimal(t, x) ==
    /\ t.den = 10
    /\ 2 * (10 * x.num - t.num * x.den) <= x.den
    /\ 2 * (t.num * x.den - 10 * x.num) <= x.den

\* the expressions of the seven clamped scores
ScoreExpression(k, f) ==
    CASE k = "bass" -> Rat(10 * 20 * f.pitch_mean.den
                             - (f.pitch_mean.num - 80 * f.pitch_mean.den),
                           20 * f.pitch_mean.den)
      [] k = "treble" -> Rat(f.spectral_centroid_mean.num
                               - 1000 * f.spectral_centroid_mean.den,
                             300 * f.spectral_centroid_mean.den)
      [] k = "clarity" -> Rat(100 * f.zcr_mean.num, f.zcr_mean.den)
      [] k = "smoothness" -> Rat(10 * 10 * f.pitch_std.den - f.pitch_std.num,
                                 10 * f.pitch_std.den)
      [] k = "power" -> Rat(100 * f.rms_mean.num, f.rms_mean.den)
      [] k = "richness" -> Rat(2 * f.harmonic_to_percussive_ratio.num,
                               f.harmonic_to_percussive_ratio.den)
      [] k = "pitch_variation" -> Rat(f.pitch_range.num, 50 * f.pitch_range.den)

\* C20 as stated: each of the seven scores is its expression clamped to
\* [0, 10], and warmth is 0.6 bass + 0.4 smoothness.
ScoresAreClampedExpressions ==
    scores # <<>> =>
        /\ \A k \in ScoreNames \ {"warmth"} :
              REq(scores[k], Clamped(ScoreExpression(k, features)))
        /\ REq(scores.warmth,
               Rat(6 * scores.bass.num + 4 * scores.smoothness.num, 100))

\* C20, amended: each of the seven scores is its expression clamped to
\* [0, 10] and then rounded to one decimal, and warmth is
\* 0.6 bass + 0.4 smoothness of the clamped and rounded bass and smoothness,
\* rounded to one decimal; bass is 10 for pitch_mean <= 80 and 0 for
\* pitch_mean >= 280.
ScoresAreRoundedClampedExpressions ==
    scores # <<>> =>
        /\ \A k \in ScoreNames \ {"warmth"} :
              OneDecimal(scores[k], Clamped(ScoreExpression(k, features)))
        /\ OneDecimal(scores.warmth,
                      Rat(6 * scores.bass.num + 4 * scores.smoothness.num, 100))
        /\ features.pitch_mean.num <= 80 * features.pitch_mean.den
              => REq(scores.bass, RInt(10))
        /\ features.pitch_mean.num >= 280 * features.pitch_mean.den
              => REq(scores.bass, RInt(0))

\* a bass whose expression, 8.95, is not a whole number of tenths
ScoresAreRoundedClampedExpressionsWitness ==
    /\ scores # <<>>
    /\ REq(features.pitch_mean, RInt(101))
    /\ REq(features.pitch_std, RInt(5))
    /\ ~REq(scores.bass, Rat(895, 100))
    /\ REq(scores.smoothness, Rat(95, 10))

\* the positive observations of both passes, each once
ObservedOnce ==
    IF audio.yin_raises THEN positive(audio.pitches)
    ELSE positive(audio.pitches) \o positive(audio.yin)

OtherModule == IF module = "integrated" THEN "speech_classification" ELSE "integrated"

\* C23: on the same outputs of the two pitch passes both modules build the
\* same merged set, every positive observation of both passes once each, and
\* so report the same pitch_mean, pitch_median, pitch_std and pitch_range.
ModulesAgreeOnPitch ==
    (audio # <<>> /\ features # <<>>) =>
        LET other == extract_audio_features(OtherModule, audio)
        IN /\ ObservedOnce # <<>> => combined_pitch = ObservedOnce
           /\ REq(features.pitch_mean, other.pitch_mean)
           /\ REq(features.pitch_median, other.pitch_median)
           /\ REq(features.pitch_std, other.pitch_std)
           /\ REq(features.pitch_range, other.pitch_range)

\* C27: the merged set is never empty (150 stands in when both passes yield
\* nothing) and the set the IQR filter retains is never empty, so the pitch
\* statistics are always those of at least one retained value.
RetainedNonEmpty ==
    (audio # <<>> /\ features # <<>>) =>
        /\ combined_pitch # <<>>
        /\ filteredPitch(combined_pitch) # <<>>
        /\ Retained # {}
        /\ features.pitch_std.den = StdScale * Len(filteredPitch(combined_pitch))
        /\ (positive(audio.pitches) = <<>>
            /\ (audio.yin_raises \/ positive(audio.yin) = <<>>))
              => combined_pitch = <<150>>

\* an observation discarded, the others retained
RetainedNonEmptyWitness ==
    /\ audio # <<>>
    /\ features # <<>>
    /\ Len(combined_pitch) >= 4
    /\ Len(filteredPitch(combined_pitch)) = Len(combined_pitch) - 1

\* C28: a pitch_median below 140 is labelled male and one of 200 or more
\* female, whatever the formant and centroid cues are.
ExtremePitchDecides ==
    verdict # <<>> =>
        /\ features.pitch_median.num < 140 * features.pitch_median.den
              => verdict[1] = "male"
        /\ features.pitch_median.num >= 200 * features.pitch_median.den
              => verdict[1] = "female"

\* both secondary cues against a pitch_median below 140
ExtremePitchDecidesWitness ==
    /\ verdict # <<>>
    /\ RLt(features.pitch_median, RInt(140))
    /\ RLt(RInt(620), features.formant_f1_mean)
    /\ RLt(RInt(1700), features.formant_f2_mean)
    /\ RLt(RInt(2500), features.spectral_centroid_mean)
    /\ REq(gender_score, Rat(1, 2))
    /\ verdict[1] = "male"

\* C26: the WAV stopRecording produces for a session holds only samples
\* delivered while that session was recording: no chunk of an earlier session
\* is in a later session's artifact.
ArtifactOfOneSession ==
    \A i \in DOMAIN artifact.chunks : artifact.chunks[i] = artifact.session

analysisFailed(q) ==
    \/ ~GROQ_API_KEY
    \/ ~q.heard.readable
    \/ get_celebrity_match(q.outcome).json = "array"

AnalysisFailureKeepsSave ==
    \A r \in DOMAIN requests :
        LET q == requests[r]
        IN q.pc = "done" /\ q.timestamp # 0 =>
            /\ q.response.success
            /\ q.response.status = 200
            /\ q.timestamp \in DOMAIN audioDir
            /\ q.timestamp \in DOMAIN gameDir
            /\ gameDir[q.timestamp].audio_file = q.timestamp
            /\ analysisFailed(q) => q.response.voice_analysis = <<>>
            /\ ~analysisFailed(q) /\ ~truthy(get_celebrity_match(q.outcome)) =>
                  LET p == voiceProfile(extract_audio_features("integrated", q.heard))
                  IN /\ q.response.voice_analysis # <<>>
                     /\ q.response.voice_analysis.celebrity_name = "Analyzing..."
                     /\ q.response.voice_analysis.match_percentage = 0
                     /\ q.response.voice_analysis.gender = p.gender
                     /\ q.response.voice_analysis.voice_scores = p.voice_scores

\* a save answered although librosa raised on its file, and one answered with
\* the placeholder after the Groq request itself had raised
AnalysisFailureKeepsSaveWitness ==
    \E r1, r2 \in DOMAIN requests :
        /\ requests[r1].pc = "done" /\ requests[r1].timestamp # 0
        /\ GROQ_API_KEY /\ ~requests[r1].heard.readable
        /\ requests[r2].pc = "done" /\ requests[r2].timestamp # 0
        /\ requests[r2].heard.readable
        /\ requests[r2].outcome.http = "error"
        /\ requests[r2].response.voice_analysis # <<>>

\* C22: two /save_audio requests handled at once share nothing, so the
\* analysis a request ends with is the analysis of the audio of its own body.
OwnAudioOnly ==
    \A r \in DOMAIN requests :
        LET q == requests[r]
        IN q.pc \in {"analysed", "done"} /\ q.timestamp # 0 =>
            q.voice_analysis = tryAnalysis(GROQ_API_KEY, q.body, q.outcome).voice_analysis

\* C30: after every add_xp call on a session initialised by init_session the
\* loop has ended with 0 <= total_xp < xp_for_next_level; the level has not
\* decreased and has grown by one for each threshold consumed, the call's
\* amount being the thresholds consumed plus the change of total_xp; and
\* xp_for_next_level has not decreased, each level-up replacing it by
\* floor(1.5 * previous).
RECURSIVE thresholds(_, _)
thresholds(x, k) == IF k = 0 THEN <<>> ELSE <<x>> \o thresholds(grow(x), k - 1)

RECURSIVE SumOf(_)
SumOf(q) == IF q = <<>> THEN 0 ELSE Head(q) + SumOf(Tail(q))

RECURSIVE growN(_, _)
growN(x, k) == IF k = 0 THEN x ELSE growN((3 * x) \div 2, k - 1)

AddXpLevels ==
    lastCall # <<>> =>
        \A i \in DOMAIN lastCall.xp_log :
            LET e == lastCall.xp_log[i]
                k == e.after.level - e.before.level
            IN "level" \in DOMAIN e.before =>
                /\ ~e.raised
                /\ 0 <= e.after.total_xp
                /\ e.after.total_xp < e.after.xp_for_next_level
                /\ k >= 0
                /\ e.after.xp_for_next_level >= e.before.xp_for_next_level
                /\ e.after.xp_for_next_level = growN(e.before.xp_for_next_level, k)
                /\ e.before.total_xp + e.amount
                       = e.after.total_xp
                           + SumOf(thresholds(e.before.xp_for_next_level, k))

\* one add_xp call that consumed two thresholds or more
AddXpLevelsWitness ==
    /\ lastCall # <<>>
    /\ \E i \in DOMAIN lastCall.xp_log :
           /\ "level" \in DOMAIN lastCall.xp_log[i].before
           /\ lastCall.xp_log[i].after.level >= lastCall.xp_log[i].before.level + 2

\* C29: across the /analyze calls of a session initialised by init_session,
\* unlocked_achievements never holds an achievement twice, the XP of each
\* achievement is added at most once, and no achievement unlocked before a
\* call is in the new_achievements of that call.
NoRepeatedAward ==
    "level" \in DOMAIN flaskSession =>
        /\ \A i, j \in DOMAIN flaskSession.unlocked_achievements :
               flaskSession.unlocked_achievements[i]
                   = flaskSession.unlocked_achievements[j] => i = j
        /\ \A a \in AchievementNames : xpAwards[a] <= 1
        /\ lastCall # <<>> =>
               \A i \in DOMAIN lastCall.new_achievements :
                   lastCall.new_achievements[i] \notin SeqRange(lastCall.unlocked_before)

StreakMasterLocked ==
    LET unlocked == sessionGet(flaskSession, "unlocked_achievements", <<>>)
    IN /\ "Streak Master" \notin SeqRange(unlocked)
       /\ "Speech Master" \notin SeqRange(unlocked)
       /\ Len(unlocked) <= 13

AllButStreakMaster ==
    Len(sessionGet(flaskSession, "unlocked_achievements", <<>>)) = 13

\* that player ends with the 13 achievements the checks can give
EndsWithThirteen == <>[]AllButStreakMaster

====
